---------------------------- MODULE Spec2Model ----------------------------
(***************************************************************************)
(* Microsenses MINI Dogs: the frame loop of js/app.js, the vocalization    *)
(* classifier (BarkAnalysisEngine) and the motion / posture tracker        *)
(* (DogEmotionEngine) as state machines.                                   *)
(*                                                                         *)
(* Units.  JavaScript numbers are carried as fixed-point integers:         *)
(*   RMS amplitudes in thousandths (0.025 -> 25),                          *)
(*   spectral ratios and tonality in hundredths (0.3 -> 30),               *)
(*   frequencies in Hz, frame counts in frames.                            *)
(* A comparison against a quotient is cross-multiplied so that it is exact.*)
(***************************************************************************)
EXTENDS Integers, Sequences, FiniteSets, TLC

VARIABLES
    app,            \* the module-level state of app.js and the page's flags
    loop,           \* the asynchronous activities in flight
    barkEngine,     \* the BarkAnalysisEngine instance of app.js:51
    emotionEngine,  \* the DogEmotionEngine instance of app.js:52
    visionAnalyzer, \* a DogVisionAnalyzer instance
    fed,            \* frames fed since the start of the run (model bound)
    watch           \* history of the run that the properties refer to

(***************************************************************************)
(* Generic helpers                                                         *)
(***************************************************************************)
Null == <<>>
Some(x) == <<x>>
IsNull(v) == v = <<>>
Val(v) == v[1]

Max(a, b) == IF a >= b THEN a ELSE b
Min(a, b) == IF a <= b THEN a ELSE b
Abs(a) == IF a < 0 THEN -a ELSE a

\* Math.round(a / b) for b > 0: halves round towards +Infinity.
Round(a, b) == (2 * a + b) \div (2 * b)

RECURSIVE SumRange(_, _, _)
SumRange(s, lo, hi) ==
    IF lo > hi THEN 0
    ELSE IF lo = hi THEN s[lo]
    ELSE LET mid == (lo + hi) \div 2
         IN  SumRange(s, lo, mid) + SumRange(s, mid + 1, hi)

\* Array.prototype.reduce((a, b) => a + b, 0)
SumSeq(s) == SumRange(s, 1, Len(s))

\* the counts object built by  counts[k] = (counts[k] || 0) + 1  over a list
\* of keys: its entries, in insertion order
Tally(keys) ==
    LET firsts == SelectSeq([i \in 1..Len(keys) |-> i],
                            LAMBDA i : \A j \in 1..(i - 1) : keys[j] # keys[i])
    IN  [ k \in 1..Len(firsts) |->
            [ key |-> keys[firsts[k]],
              count |-> Cardinality({i \in 1..Len(keys) : keys[i] = keys[firsts[k]]}) ] ]

\* the first entry with the largest count, as forEach with  count > max
\* and as a stable descending sort find it
TopKey(counts, default) ==
    IF Len(counts) = 0 THEN default
    ELSE LET i == CHOOSE i \in 1..Len(counts) :
                    /\ \A j \in 1..Len(counts) : counts[j].count <= counts[i].count
                    /\ \A j \in 1..(i - 1) : counts[j].count < counts[i].count
         IN  counts[i].key

\* Array.prototype.slice(-n): the last n elements (all of them when n = 0,
\* because -0 is 0 in JavaScript).
SliceLast(s, n) ==
    IF n <= 0 \/ n >= Len(s) THEN s ELSE SubSeq(s, Len(s) - n + 1, Len(s))

\* Array.prototype.slice(0, n)
SliceFirst(s, n) == IF n >= Len(s) THEN s ELSE SubSeq(s, 1, n)

\* push that leaves a full list as it is
PushKeepOldest(s, x, cap) == IF Len(s) >= cap THEN s ELSE Append(s, x)

\* push, then shift when the capacity is exceeded
PushCap(s, x, cap) ==
    LET t == Append(s, x) IN IF Len(t) > cap THEN Tail(t) ELSE t

Map(s, F(_)) == [i \in 1..Len(s) |-> F(s[i])]

Filter(s, P(_)) == SelectSeq(s, P)

Count(s, P(_)) == Cardinality({i \in 1..Len(s) : P(s[i])})

(***************************************************************************)
(* BarkAnalysisEngine -- constants of the constructor                      *)
(***************************************************************************)
maxBarkHistory == 100
maxVocalizationHistory == 300
BASELINE_FRAMES == 90
timelineWindowFrames == 30
DOG_FREQ_MIN == 80
DOG_FREQ_MAX == 2000
GROWL_FREQ_MAX == 300
WHINE_FREQ_MIN == 300
HOWL_FREQ_MIN == 150
HOWL_FREQ_MAX == 780
VAD_THRESHOLD == 25
BARK_ONSET_THRESHOLD == 100
BARK_MAX_DURATION == 15
GROWL_MIN_DURATION == 20
HOWL_MIN_DURATION == 35
MIN_VOCALIZATION_RMS == 40
maxIBIHistory == 50
maxTonalityHistory == 50

\* new BarkAnalysisEngine()
BarkConstructor ==
    [ audioContext |-> FALSE, analyserNode |-> FALSE, sourceNode |-> FALSE,
      muteGain |-> FALSE, scriptProcessor |-> FALSE,
      isActive |-> FALSE,
      isSoundActive |-> FALSE,
      soundFrameCount |-> 0, silenceFrameCount |-> 0, totalFrameCount |-> 0,
      barkEvents |-> <<>>,
      currentBark |-> Null,
      barkHistory |-> <<>>,
      vocalizationType |-> "silent",
      vocalizationHistory |-> <<>>,
      dominantFreqHistory |-> <<>>,
      baselineEstablished |-> FALSE,
      baselineRMS |-> Null,
      baselineFrames |-> <<>>,
      spectralHistory |-> <<>>,
      timeline |-> <<>>,
      lastBarkEndTime |-> 0,
      interBarkIntervals |-> <<>>,
      tonalityHistory |-> <<>> ]

\* destroy(): disconnects and drops every audio node
BarkDestroy(b) ==
    [b EXCEPT !.audioContext = FALSE, !.analyserNode = FALSE,
              !.sourceNode = FALSE, !.muteGain = FALSE,
              !.scriptProcessor = FALSE, !.isActive = FALSE]

\* initAudioContext(stream): ok = the AudioContext could be opened.
\* The result is <<engine, threw>>.
\* an initAudioContext() whose catch block rethrows without destroy(): a
\* failure after createAnalyser() leaves the context and the analyser
BarkInitKeepNodes(b, ok) ==
    << [b EXCEPT !.audioContext = TRUE, !.analyserNode = TRUE, !.sourceNode = ok,
                 !.muteGain = ok, !.scriptProcessor = ok, !.isActive = ok], ~ok >>

BarkInitAudioContext(b, ok) ==
    LET d == BarkDestroy(b) IN
    IF ok
    THEN << [d EXCEPT !.audioContext = TRUE, !.analyserNode = TRUE,
                      !.sourceNode = TRUE, !.muteGain = TRUE,
                      !.scriptProcessor = TRUE, !.isActive = TRUE], FALSE >>
    ELSE << d, TRUE >>

\* clearAll()
BarkClearAll(b) ==
    [b EXCEPT !.barkEvents = <<>>,
              !.currentBark = Null,
              !.barkHistory = <<>>,
              !.vocalizationType = "silent",
              !.vocalizationHistory = <<>>,
              !.dominantFreqHistory = <<>>,
              !.baselineEstablished = FALSE,
              !.baselineRMS = Null,
              !.baselineFrames = <<>>,
              !.spectralHistory = <<>>,
              !.timeline = <<>>,
              !.soundFrameCount = 0,
              !.silenceFrameCount = 0,
              !.totalFrameCount = 0,
              !.isSoundActive = FALSE,
              !.lastBarkEndTime = 0,
              !.interBarkIntervals = <<>>,
              !.tonalityHistory = <<>>]

(***************************************************************************)
(* An audio frame is what the analyser node delivers for one video frame,  *)
(* reduced to the features the engine computes from it:                    *)
(*   rms  = _computeRMS(timeDomainBuffer)                                  *)
(*   freq = _findDominantFrequency()                                       *)
(*   low, mid, high = the band ratios of _analyzeSpectralContent()         *)
(***************************************************************************)
Rat(n, d) == [num |-> n, den |-> d]

\* rms > q * r  and  rms < q * r  for a rational r and q = qn / qd
GtTimes(rms, qn, qd, r) == rms * qd * r.den > qn * r.num
LtTimes(rms, qn, qd, r) == rms * qd * r.den < qn * r.num

\* _computeOnsetSharpness(): largest rise between consecutive RMS values of
\* the last five recorded frames
BarkOnsetSharpness(b) ==
    IF Len(b.vocalizationHistory) < 5 THEN 0
    ELSE LET r == SliceLast(b.vocalizationHistory, 5)
             rises == {r[i].rms - r[i - 1].rms : i \in 2..5}
         IN  Max(0, CHOOSE m \in rises : \A x \in rises : x <= m)

\* _isFrequencyModulated(): 20 < stddev < 200 over the last ten dominant
\* frequencies; with S the sum, variance = sum((10 v - S)^2) / 1000
BarkIsFrequencyModulated(b) ==
    IF Len(b.dominantFreqHistory) < 10 THEN FALSE
    ELSE LET r == SliceLast(b.dominantFreqHistory, 10)
             S == SumSeq([i \in 1..10 |-> r[i].freq])
             dev == SumSeq([i \in 1..10 |-> (10 * r[i].freq - S) * (10 * r[i].freq - S)])
         IN  dev > 400 * 1000 /\ dev < 40000 * 1000

\* _classifyVocalization(rms, dominantFreq, spectral): the new vocalizationType
BarkClassifyVocalization(b, a) ==
    IF ~b.isSoundActive THEN "silent"
    ELSE IF a.rms < MIN_VOCALIZATION_RMS THEN "ambient"
    ELSE IF b.baselineEstablished /\ LtTimes(a.rms, 4, 1, Val(b.baselineRMS))
         THEN "ambient"
    ELSE
      LET onset == BarkOnsetSharpness(b)
          spectralTilt == a.low - a.high
          soundDuration == IF b.silenceFrameCount = 0 THEN b.soundFrameCount ELSE 0
          inDogRange == a.freq >= DOG_FREQ_MIN /\ a.freq <= DOG_FREQ_MAX
      IN
      IF inDogRange /\ a.freq < GROWL_FREQ_MAX /\ spectralTilt > 30
         /\ soundDuration > GROWL_MIN_DURATION /\ a.rms > 60
      THEN "growl"
      ELSE IF inDogRange /\ a.freq > WHINE_FREQ_MIN /\ spectralTilt < -10
              /\ soundDuration > 10 /\ a.rms > 50
      THEN "whine"
      ELSE IF inDogRange /\ a.freq >= HOWL_FREQ_MIN /\ a.freq <= HOWL_FREQ_MAX
              /\ soundDuration > HOWL_MIN_DURATION
              /\ BarkIsFrequencyModulated(b) /\ a.rms > 60
      THEN "howl"
      ELSE IF inDogRange /\ onset > 200 /\ a.rms > BARK_ONSET_THRESHOLD
      THEN "bark"
      ELSE IF inDogRange /\ onset > 400 /\ soundDuration < 3
              /\ a.freq > 800 /\ a.rms > 80
      THEN "yelp"
      ELSE "ambient"

\* _finalizeBark()
BarkFinalize(b) ==
    IF IsNull(b.currentBark) THEN b
    ELSE
      LET cb == Val(b.currentBark)
          endFrame == b.totalFrameCount
          duration == endFrame - cb.startFrame
          n == Len(cb.frequencies)
          fsum == SumSeq(cb.frequencies)
          recentBarks == SliceLast(b.barkHistory, 5)
          isRepetitive ==
              /\ Len(recentBarks) >= 3
              /\ \A i \in 1..Len(recentBarks) :
                    Abs(recentBarks[i].avgFreq * n - fsum) < 50 * n
          barkType ==
              IF duration <= BARK_MAX_DURATION
              THEN IF fsum > 600 * n
                   THEN (IF cb.peakRMS > 150 THEN "alert" ELSE "play")
                   ELSE IF fsum < 300 * n THEN "aggressive"
                   ELSE IF isRepetitive THEN "demand" ELSE "alert"
              ELSE IF fsum < 300 * n THEN "aggressive"
                   ELSE IF fsum > 500 * n THEN "anxiety"
                   ELSE "alert"
          ibi == Round((cb.startFrame - b.lastBarkEndTime) * 1000, 30)
          hasIbi == b.lastBarkEndTime > 0 /\ ibi > 0 /\ ibi < 10000
          hasTone == Len(b.spectralHistory) > 0
          recentSpectral == SliceLast(b.spectralHistory, duration)
          midSum == SumSeq([i \in 1..Len(recentSpectral) |-> recentSpectral[i].mid])
          tonality == Min(100, (2 * midSum) \div Len(recentSpectral))
          k == n \div 3
          firstSum == SumSeq(SliceFirst(cb.frequencies, k))
          lastSum == SumSeq(SliceLast(cb.frequencies, k))
          pitchContour ==
              IF n >= 3
              THEN IF lastSum - firstSum > 30 * k THEN "rising"
                   ELSE IF lastSum - firstSum < -30 * k THEN "falling"
                   ELSE "flat"
              ELSE "flat"
          bark == [ startFrame |-> cb.startFrame,
                    endFrame |-> endFrame,
                    duration |-> duration,
                    durationMs |-> Round(duration * 1000, 30),
                    avgFreq |-> Round(fsum, n),
                    peakRMS |-> cb.peakRMS,
                    type |-> barkType,
                    interBarkInterval |-> IF hasIbi THEN Some(ibi) ELSE Null,
                    tonality |-> IF hasTone THEN Some(tonality) ELSE Null,
                    pitchContour |-> pitchContour ]
      IN
      [b EXCEPT
         !.interBarkIntervals =
             IF hasIbi THEN PushCap(@, ibi, maxIBIHistory) ELSE @,
         !.lastBarkEndTime = endFrame,
         !.tonalityHistory =
             IF hasTone THEN PushCap(@, tonality, maxTonalityHistory) ELSE @,
         !.barkHistory = PushCap(@, bark, maxBarkHistory),
         !.currentBark = Null]

\* _trackBarkEvent without its closing branch: an event, once open, stays open
BarkTrackOpenOnly(b, a) ==
    IF b.vocalizationType \in {"bark", "yelp"}
    THEN IF IsNull(b.currentBark)
         THEN [b EXCEPT !.currentBark =
                  Some([ startFrame |-> b.totalFrameCount,
                         peakRMS |-> a.rms,
                         frequencies |-> <<a.freq>>,
                         rmsValues |-> <<a.rms>> ])]
         ELSE LET cb == Val(b.currentBark) IN
              [b EXCEPT !.currentBark =
                  Some([cb EXCEPT !.peakRMS = Max(@, a.rms),
                                  !.frequencies = Append(@, a.freq),
                                  !.rmsValues = Append(@, a.rms)])]
    ELSE b

\* _trackBarkEvent(rms, dominantFreq)
BarkTrackEvent(b, a) ==
    IF b.vocalizationType \in {"bark", "yelp"} /\ b.vocalizationType # "ambient"
    THEN IF IsNull(b.currentBark)
         THEN [b EXCEPT !.currentBark =
                  Some([ startFrame |-> b.totalFrameCount,
                         peakRMS |-> a.rms,
                         frequencies |-> <<a.freq>>,
                         rmsValues |-> <<a.rms>> ])]
         ELSE LET cb == Val(b.currentBark) IN
              [b EXCEPT !.currentBark =
                  Some([cb EXCEPT !.peakRMS = Max(@, a.rms),
                                  !.frequencies = Append(@, a.freq),
                                  !.rmsValues = Append(@, a.rms)])]
    ELSE IF ~IsNull(b.currentBark) /\ b.vocalizationType \in {"silent", "ambient"}
         THEN BarkFinalize(b)
         ELSE b

\* _quickAssess()
BarkQuickAssess(b) ==
    LET recentVocals == SliceLast(b.vocalizationHistory, 30)
        act == Filter(recentVocals, LAMBDA v : v.isActive)
        activeFrames == Len(act)
        intensity ==
            IF activeFrames > 0
            THEN Round(SumSeq([i \in 1..activeFrames |-> act[i].rms]), 10 * activeFrames)
            ELSE 0
        recentBarks == Filter(b.barkHistory,
                              LAMBDA k : k.endFrame > b.totalFrameCount - 90)
        barkWindow == Min(b.totalFrameCount, 900)
        windowBarks == Filter(b.barkHistory,
                              LAMBDA k : k.endFrame > b.totalFrameCount - barkWindow)
        barkRate == IF barkWindow > 0
                    THEN Round(Len(windowBarks) * 1800, barkWindow) ELSE 0
        nOf(t) == Count(recentBarks, LAMBDA k : k.type = t)
        \* entries sorted by count, descending; the sort is stable, so ties
        \* keep the order of first appearance
        dominantType ==
            IF Len(recentBarks) = 0 THEN "silent"
            ELSE LET i == CHOOSE i \in 1..Len(recentBarks) :
                            /\ \A j \in 1..Len(recentBarks) :
                                  nOf(recentBarks[j].type) <= nOf(recentBarks[i].type)
                            /\ \A j \in 1..(i - 1) :
                                  nOf(recentBarks[j].type) < nOf(recentBarks[i].type)
                 IN  recentBarks[i].type
        avgPitch ==
            IF Len(recentBarks) > 0
            THEN Round(SumSeq([i \in 1..Len(recentBarks) |-> recentBarks[i].avgFreq]),
                       Len(recentBarks))
            ELSE 0
        ibis == b.interBarkIntervals
        avgIBI == IF Len(ibis) > 0
                  THEN Round(SumSeq(SliceLast(ibis, 10)), Min(10, Len(ibis)))
                  ELSE 0
        tones == b.tonalityHistory
        avgTonality == IF Len(tones) > 0
                       THEN Round(SumSeq(SliceLast(tones, 10)), Min(10, Len(tones)))
                       ELSE 50
        lastPitchContour ==
            IF Len(b.barkHistory) > 0
            THEN b.barkHistory[Len(b.barkHistory)].pitchContour ELSE "flat"
        isDogSound == /\ b.isSoundActive
                      /\ b.vocalizationType # "silent"
                      /\ b.vocalizationType # "ambient"
    IN
    [ isVocalizing |-> isDogSound,
      currentType |-> b.vocalizationType,
      dominantType |-> dominantType,
      intensity |-> Min(100, intensity),
      barkRate |-> barkRate,
      recentBarkCount |-> Len(recentBarks),
      avgPitch |-> avgPitch,
      hasBaseline |-> b.baselineEstablished,
      dominantFreq |-> IF Len(b.dominantFreqHistory) > 0
                       THEN b.dominantFreqHistory[Len(b.dominantFreqHistory)].freq
                       ELSE 0,
      interBarkInterval |-> avgIBI,
      tonality |-> avgTonality,
      pitchContour |-> lastPitchContour ]

\* processAudioFrame(): the frame counter and the baseline phase
BarkFrameBaseline(b, a) ==
    LET b1 == [b EXCEPT !.totalFrameCount = @ + 1]
        frames == Append(b1.baselineFrames, a.rms)
    IN  IF ~b1.baselineEstablished
        THEN IF Len(frames) >= BASELINE_FRAMES
             THEN [b1 EXCEPT !.baselineFrames = frames,
                             !.baselineRMS = Some(Rat(SumSeq(frames), Len(frames))),
                             !.baselineEstablished = TRUE]
             ELSE [b1 EXCEPT !.baselineFrames = frames]
        ELSE b1

\* processAudioFrame(): the adaptive voice activity detection
BarkFrameGate(b, a) ==
    [b EXCEPT !.isSoundActive =
        IF b.baselineEstablished
        THEN a.rms > VAD_THRESHOLD /\ GtTimes(a.rms, 7, 2, Val(b.baselineRMS))
        ELSE a.rms > VAD_THRESHOLD]

\* processAudioFrame(): the frame is classified and the bark event tracked
BarkFrameClassify(b, a) ==
    BarkTrackEvent([b EXCEPT !.vocalizationType = BarkClassifyVocalization(b, a)], a)

\* the same branches, with the event closed by the third silent frame
BarkFrameSoundAtThree(b, a) ==
    IF b.isSoundActive
    THEN BarkFrameClassify(
             [b EXCEPT
                !.soundFrameCount = @ + 1,
                !.silenceFrameCount = 0,
                !.spectralHistory =
                    PushCap(@, [low |-> a.low, mid |-> a.mid, high |-> a.high],
                            maxVocalizationHistory),
                !.dominantFreqHistory =
                    PushCap(@, [freq |-> a.freq, rms |-> a.rms, time |-> b.totalFrameCount],
                            maxVocalizationHistory)], a)
    ELSE IF b.silenceFrameCount + 1 >= 3
         THEN [BarkFinalize([b EXCEPT !.silenceFrameCount = @ + 1])
                   EXCEPT !.vocalizationType = "silent"]
         ELSE [b EXCEPT !.silenceFrameCount = @ + 1]

\* processAudioFrame(): the branch of an active, and of a silent, frame
BarkFrameSound(b, a) ==
    IF b.isSoundActive
    THEN BarkFrameClassify(
             [b EXCEPT
                !.soundFrameCount = @ + 1,
                !.silenceFrameCount = 0,
                !.spectralHistory =
                    PushCap(@, [low |-> a.low, mid |-> a.mid, high |-> a.high],
                            maxVocalizationHistory),
                !.dominantFreqHistory =
                    PushCap(@, [freq |-> a.freq, rms |-> a.rms, time |-> b.totalFrameCount],
                            maxVocalizationHistory)], a)
    ELSE IF b.silenceFrameCount + 1 > 3
         THEN [BarkFinalize([b EXCEPT !.silenceFrameCount = @ + 1])
                   EXCEPT !.vocalizationType = "silent"]
         ELSE [b EXCEPT !.silenceFrameCount = @ + 1]

\* processAudioFrame(): the frame is pushed to vocalizationHistory
BarkFrameRecord(b, a) ==
    [b EXCEPT !.vocalizationHistory =
        PushCap(@, [type |-> b.vocalizationType,
                    time |-> b.totalFrameCount,
                    rms |-> a.rms,
                    isActive |-> b.isSoundActive],
                maxVocalizationHistory)]

\* the timeline entry of processAudioFrame(), given quickAssess()
BarkTimelineEntry(b, assess) ==
    [ timeSeconds |-> Round(b.totalFrameCount, 30),
      vocalization |-> assess.currentType,
      intensity |-> assess.intensity,
      barkCount |-> Len(b.barkHistory) ]

\* processAudioFrame(): the timeline entry of every timelineWindowFrames
BarkFrameTimeline(b) ==
    IF b.totalFrameCount % timelineWindowFrames = 0
    THEN [b EXCEPT !.timeline = Append(@, BarkTimelineEntry(b, BarkQuickAssess(b)))]
    ELSE b

\* processAudioFrame()
BarkProcessAudioFrame(b, a) ==
    IF ~b.isActive \/ ~b.analyserNode THEN b
    ELSE BarkFrameTimeline(
             BarkFrameRecord(BarkFrameSound(BarkFrameGate(BarkFrameBaseline(b, a), a), a), a))

\* fullAnalysis()
BarkFullAnalysis(b) ==
    LET hist == b.barkHistory
        types == {hist[i].type : i \in 1..Len(hist)}
        barkTypeCount == [t \in types |-> Count(hist, LAMBDA k : k.type = t)]
        \* forEach over the entries in insertion order, replacing on a
        \* strictly larger count: the first type that reaches the maximum
        dominantBarkType ==
            IF Len(hist) = 0 THEN "none"
            ELSE LET i == CHOOSE i \in 1..Len(hist) :
                            /\ \A j \in 1..Len(hist) :
                                  barkTypeCount[hist[j].type] <= barkTypeCount[hist[i].type]
                            /\ \A j \in 1..(i - 1) :
                                  barkTypeCount[hist[j].type] < barkTypeCount[hist[i].type]
                 IN  hist[i].type
        voc == Filter(b.vocalizationHistory,
                      LAMBDA v : v.isActive /\ v.type # "ambient" /\ v.type # "silent")
        vocTypes == {voc[i].type : i \in 1..Len(voc)}
        act == Filter(b.vocalizationHistory, LAMBDA v : v.isActive)
        rmsSum == IF Len(b.vocalizationHistory) > 0
                  THEN SumSeq([i \in 1..Len(act) |-> act[i].rms]) ELSE 0
        den == Max(1, b.soundFrameCount)
    IN
    [ totalDuration |-> Round(b.totalFrameCount * 10, 30),
      soundDuration |-> Round(b.soundFrameCount * 10, 30),
      soundRatio |-> IF b.totalFrameCount > 0
                     THEN Round(b.soundFrameCount * 100, b.totalFrameCount) ELSE 0,
      baselineEstablished |-> b.baselineEstablished,
      barks |->
        [ total |-> Len(hist),
          rate |-> IF b.totalFrameCount > 0
                   THEN Round(Len(hist) * 18000, b.totalFrameCount) ELSE 0,
          avgFrequency |-> IF Len(hist) > 0
                           THEN Round(SumSeq([i \in 1..Len(hist) |-> hist[i].avgFreq]),
                                      Len(hist))
                           ELSE 0,
          avgDuration |-> IF Len(hist) > 0
                          THEN Round(SumSeq([i \in 1..Len(hist) |-> hist[i].durationMs]),
                                     Len(hist))
                          ELSE 0,
          dominantType |-> dominantBarkType,
          typeDistribution |-> barkTypeCount ],
      vocalizations |->
        [ typeDistribution |-> [t \in vocTypes |-> Count(voc, LAMBDA v : v.type = t)],
          intensity |-> IF rmsSum > 150 * den THEN "high"
                        ELSE IF rmsSum > 80 * den THEN "moderate"
                        ELSE IF rmsSum > 30 * den THEN "low" ELSE "minimal" ],
      timeline |-> b.timeline ]

(***************************************************************************)
(* DogEmotionEngine (js/dog-emotion-engine.js)                             *)
(*                                                                         *)
(* Units.  Box coordinates are in hundredths of a pixel; centres and every *)
(* displacement or speed derived from them are in two-hundredths of a      *)
(* pixel (centerX = x + width/2 is carried as 2x + width); areas are in    *)
(* squared hundredths; aspect ratios in thousandths; relative size changes *)
(* in ten-thousandths.                                                     *)
(***************************************************************************)
maxHistoryFrames == 300
maxEmotionHistory == 300
maxPostureHistory == 90
maxActionHistory == 600
\* EMA_ALPHA = 0.3, as the weight of the raw box out of EMA_DEN
EMA_ALPHA == 3
EMA_DEN == 10
\* MOVEMENT_NOISE_FLOOR = 6 pixels per frame
MOVEMENT_NOISE_FLOOR == 6
\* one pixel in box units and in centre units
PX == 100
CPX == 200

RECURSIVE SqrtBetween(_, _, _)
SqrtBetween(n, lo, hi) ==
    IF lo >= hi THEN lo
    ELSE LET mid == (lo + hi + 1) \div 2
         IN  IF mid * mid <= n THEN SqrtBetween(n, mid, hi)
                               ELSE SqrtBetween(n, lo, mid - 1)

\* Math.sqrt, rounded down to the unit of its argument's root
Sqrt(n) == SqrtBetween(n, 0, 46340)

\* Math.sign
Sign(a) == IF a > 0 THEN 1 ELSE IF a < 0 THEN -1 ELSE 0

EmoPatterns0 ==
    [ pacing |-> 0, spinning |-> 0, bouncing |-> 0, stillness |-> 0,
      approaching |-> 0, retreating |-> 0, headTilts |-> 0, playBows |-> 0,
      jumping |-> 0, crouching |-> 0, postureChanges |-> 0,
      restlessness |-> 0, tailWagLikely |-> 0 ]

\* constructor()
EmoConstructor ==
    [ frameHistory |-> <<>>,
      emotionHistory |-> <<>>,
      primaryEmotion |-> "observing",
      secondaryEmotion |-> Null,
      emotionConfidence |-> 0,
      emotionIntensity |-> 0,
      movementHistory |-> <<>>,
      positionHistory |-> <<>>,
      sizeHistory |-> <<>>,
      postureHistory |-> <<>>,
      currentPosture |-> "unknown",
      detectedSignals |-> <<>>,
      currentNeeds |-> <<>>,
      smoothedBox |-> Null,
      patterns |-> EmoPatterns0,
      currentAction |-> "observing",
      activeActions |-> <<>>,
      actionHistory |-> <<>>,
      actionCounts |-> <<>> ]

\* a clearAll() that leaves the smoothed box and the pattern counters
EmoClearHistories(e) ==
    [ e EXCEPT !.frameHistory = <<>>,
               !.emotionHistory = <<>>,
               !.movementHistory = <<>>,
               !.positionHistory = <<>>,
               !.sizeHistory = <<>>,
               !.postureHistory = <<>>,
               !.currentPosture = "unknown",
               !.detectedSignals = <<>>,
               !.currentNeeds = <<>>,
               !.primaryEmotion = "observing",
               !.secondaryEmotion = Null,
               !.emotionConfidence = 0,
               !.emotionIntensity = 0,
               !.currentAction = "observing",
               !.activeActions = <<>>,
               !.actionHistory = <<>>,
               !.actionCounts = <<>> ]

\* clearAll()
EmoClearAll(e) ==
    [ e EXCEPT !.frameHistory = <<>>,
               !.emotionHistory = <<>>,
               !.movementHistory = <<>>,
               !.positionHistory = <<>>,
               !.sizeHistory = <<>>,
               !.postureHistory = <<>>,
               !.currentPosture = "unknown",
               !.detectedSignals = <<>>,
               !.currentNeeds = <<>>,
               !.primaryEmotion = "observing",
               !.secondaryEmotion = Null,
               !.emotionConfidence = 0,
               !.emotionIntensity = 0,
               !.smoothedBox = Null,
               !.patterns = EmoPatterns0,
               !.currentAction = "observing",
               !.activeActions = <<>>,
               !.actionHistory = <<>>,
               !.actionCounts = <<>> ]

\* the EMA step of processFrame on the raw detector box
EmoSmooth(e, rawBox) ==
    IF IsNull(e.smoothedBox)
    THEN [x |-> rawBox.x, y |-> rawBox.y, width |-> rawBox.width, height |-> rawBox.height]
    ELSE LET s == Val(e.smoothedBox)
             Ema(raw, old) == Round(EMA_ALPHA * raw + (EMA_DEN - EMA_ALPHA) * old, EMA_DEN)
         IN  [ x |-> Ema(rawBox.x, s.x), y |-> Ema(rawBox.y, s.y),
               width |-> Ema(rawBox.width, s.width),
               height |-> Ema(rawBox.height, s.height) ]

\* the frameData record of processFrame
EmoFrameData(box) ==
    [ box |-> box,
      centerX |-> 2 * box.x + box.width,
      centerY |-> 2 * box.y + box.height,
      area |-> box.width * box.height,
      aspectRatio |-> Round(1000 * box.width, Max(PX, box.height)) ]

\* _estimatePosture(): the posture the aspect ratio indicates, before the
\* stability rule
EmoRawPosture(e) ==
    LET fh == e.frameHistory
        curr == fh[Len(fh)]
        recentFrames == SliceLast(fh, 20)
        n == Len(recentFrames)
        sumAR == SumSeq([i \in 1..n |-> recentFrames[i].aspectRatio])
        sumH == SumSeq([i \in 1..n |-> recentFrames[i].box.height])
        sumW == SumSeq([i \in 1..n |-> recentFrames[i].box.width])
        byRatio ==
            IF sumAR >= 1800 * n THEN "down"
            ELSE IF sumAR >= 1400 * n
                 THEN IF \/ e.patterns.stillness > 5
                         \/ 2 * sumW >= 3 * Max(PX * n, sumH)
                      THEN "down" ELSE "stand"
            ELSE IF sumAR >= 1000 * n THEN "stand"
            ELSE "sit"
        prev8 == SliceLast(fh, 8)
        crouch == /\ Len(fh) >= 8
                  /\ 100 * curr.box.height < 65 * Max(PX, prev8[1].box.height)
                  /\ prev8[1].aspectRatio < 1500
        p1 == IF crouch THEN "crouch" ELSE byRatio
    IN  IF e.patterns.stillness > 8 /\ sumAR >= 1300 * n THEN "down" ELSE p1

\* _estimatePosture() without its stability rule: the indicated posture is
\* taken as it is
EmoUnstablePosture(e, posture) == posture

\* _estimatePosture(): the stability rule keeps currentPosture when it is
\* the posture of at least 3 of the last 5 entries of postureHistory
EmoStablePosture(e, posture) ==
    IF Len(e.postureHistory) >= 5 /\ posture # e.currentPosture
    THEN LET recent5Postures == SliceLast(e.postureHistory, 5)
             currentPostureCount == Count(recent5Postures, LAMBDA p : p = e.currentPosture)
         IN  IF currentPostureCount >= 3 THEN e.currentPosture ELSE posture
    ELSE posture

\* _estimatePosture()
EmoEstimatePosture(e) ==
    IF Len(e.frameHistory) < 5 THEN e
    ELSE LET posture == EmoStablePosture(e, EmoRawPosture(e))
             prevPosture == e.currentPosture
         IN  [ e EXCEPT !.currentPosture = posture,
                        !.postureHistory = PushCap(@, posture, maxPostureHistory),
                        !.patterns.postureChanges =
                            IF prevPosture # posture /\ prevPosture # "unknown"
                            THEN @ + 1 ELSE @ ]

\* the number of direction reversals beyond the threshold in a sequence
Oscillations(v, threshold) ==
    Cardinality({ i \in 3..Len(v) :
        LET d1 == v[i - 1] - v[i - 2]
            d2 == v[i] - v[i - 1]
        IN  \/ d1 > threshold /\ d2 < -threshold
            \/ d1 < -threshold /\ d2 > threshold })

\* the speed without the noise floor
NoNoiseFloor(sq) == Sqrt(sq)

\* _computeMovement(): magnitude = rawMagnitude < MOVEMENT_NOISE_FLOOR ? 0 :
\* rawMagnitude, from the squared raw magnitude
NoiseFloor(sq) ==
    IF sq < (MOVEMENT_NOISE_FLOOR * CPX) * (MOVEMENT_NOISE_FLOOR * CPX) THEN 0 ELSE Sqrt(sq)

\* _computeMovement(); full is FALSE for the six-field record of the first
\* frame, whose dx, dy, aspectChange and edgeOscillation are undefined
EmoComputeMovement(e) ==
    LET fh == e.frameHistory IN
    IF Len(fh) < 2
    THEN [ speed |-> 0, direction |-> "still", magnitude |-> 0, dx |-> 0, dy |-> 0,
           sizeChange |-> 0, aspectChange |-> 0, verticalOscillation |-> 0,
           acceleration |-> 0, edgeOscillation |-> 0, full |-> FALSE ]
    ELSE
    LET curr == fh[Len(fh)]
        prev == fh[Len(fh) - 1]
        rawDx == curr.centerX - prev.centerX
        rawDy == curr.centerY - prev.centerY
        floor == MOVEMENT_NOISE_FLOOR * CPX
        sq == rawDx * rawDx + rawDy * rawDy
        magnitude == NoiseFloor(sq)
        dx == IF magnitude = 0 THEN 0 ELSE rawDx
        dy == IF magnitude = 0 THEN 0 ELSE rawDy
        sizeChange == Round(curr.area - prev.area, Max(PX * PX, prev.area) \div (PX * PX))
        aspectChange == curr.aspectRatio - prev.aspectRatio
        mh == e.movementHistory
        acceleration == IF Len(mh) >= 1 THEN magnitude - mh[Len(mh)].speed ELSE 0
        direction ==
            IF sq > floor * floor
            THEN IF Abs(dx) > Abs(dy)
                 THEN (IF dx > 0 THEN "right" ELSE "left")
                 ELSE (IF dy > 0 THEN "down" ELSE "up")
            ELSE "still"
        recent6 == SliceLast(fh, 6)
        verticalOscillation ==
            IF Len(fh) >= 6
            THEN Oscillations([i \in 1..6 |-> recent6[i].centerY], 8 * CPX) ELSE 0
        recent8 == SliceLast(fh, 8)
        edgeOscillation ==
            IF Len(fh) >= 8
            THEN Oscillations([i \in 1..8 |-> recent8[i].box.x + recent8[i].box.width], 5 * PX)
            ELSE 0
    IN  [ speed |-> magnitude, direction |-> direction, magnitude |-> magnitude,
          dx |-> dx, dy |-> dy, sizeChange |-> sizeChange, aspectChange |-> aspectChange,
          verticalOscillation |-> verticalOscillation, acceleration |-> acceleration,
          edgeOscillation |-> edgeOscillation, full |-> TRUE ]

\* _computeVariance() of speeds, as numerator over n * n in squared tenths
\* of a pixel
VarianceNum(v) ==
    LET n == Len(v)
        t == [i \in 1..n |-> Round(v[i], CPX \div 10)]
        s == SumSeq(t)
    IN  IF n < 2 THEN 0 ELSE n * SumSeq([i \in 1..n |-> t[i] * t[i]]) - s * s

\* a stillness counter that grows with every frame
EmoCountStillFrames(e) == [e EXCEPT !.patterns.stillness = @ + 1]

\* _detectPatterns(movement); the movement is already the last entry of
\* movementHistory
EmoDetectPatterns(e) ==
    IF Len(e.frameHistory) < 10 THEN e
    ELSE
    LET rm == SliceLast(e.movementHistory, 30)
        n == Len(rm)
        directionChanges == Cardinality({ i \in 3..n :
            \/ rm[i].dx > 8 * CPX /\ rm[i - 1].dx < -8 * CPX
            \/ rm[i].dx < -8 * CPX /\ rm[i - 1].dx > 8 * CPX })
        last12 == SliceLast(rm, 12)
        uniqueDirs == {last12[i].direction : i \in 1..Len(last12)} \ {"still"}
        recentBounces == SliceLast(rm, 15)
        totalBounce == SumSeq([i \in 1..Len(recentBounces) |->
                                  recentBounces[i].verticalOscillation])
        jumpCount == Cardinality({ i \in 2..n :
            rm[i].dy < -8 * CPX /\ rm[i].acceleration > 5 * CPX })
        sumSpeed == SumSeq([i \in 1..n |-> rm[i].speed])
        sumSizeChange == SumSeq([i \in 1..n |-> rm[i].sizeChange])
        aspectChanges == Count(rm, LAMBDA m : Abs(m.aspectChange) > 50)
        recent5 == SliceLast(rm, 5)
        dropDown == \E i \in 1..Len(recent5) :
                        recent5[i].dy > 10 * CPX /\ recent5[i].sizeChange > 200
        recentEdge == SliceLast(rm, 10)
        totalEdgeOsc == SumSeq([i \in 1..Len(recentEdge) |-> recentEdge[i].edgeOscillation])
        varNum == VarianceNum([i \in 1..n |-> rm[i].speed])
    IN
    [ e EXCEPT !.patterns =
        [ @ EXCEPT
            !.pacing = IF directionChanges > 3 THEN directionChanges ELSE 0,
            !.spinning = IF n >= 12
                         THEN (IF Cardinality(uniqueDirs) >= 4 THEN 1 ELSE 0) ELSE @,
            !.bouncing = IF totalBounce > 6 THEN totalBounce ELSE 0,
            !.jumping = jumpCount,
            !.stillness = IF sumSpeed < MOVEMENT_NOISE_FLOOR * CPX * n
                          THEN Round(30 * CPX * n - 3 * sumSpeed, CPX * n) ELSE 0,
            !.approaching = IF sumSizeChange > 100 * n
                            THEN Round(sumSizeChange, 20 * n) ELSE 0,
            !.retreating = IF sumSizeChange < -100 * n
                           THEN Round(Abs(sumSizeChange), 20 * n) ELSE 0,
            !.headTilts = IF aspectChanges > 2 THEN aspectChanges ELSE 0,
            !.playBows = IF n >= 5 THEN (IF dropDown THEN 1 ELSE 0) ELSE @,
            !.tailWagLikely = IF totalEdgeOsc > 6 THEN totalEdgeOsc ELSE 0,
            !.restlessness = IF varNum > 2000 * n * n
                             THEN Round(varNum, 400 * n * n) ELSE 0,
            !.crouching = IF e.currentPosture = "crouch" THEN 1 ELSE 0 ] ]

\* a sum of speeds over n samples averages below / above  tenths / 10  pixels
AvgLt(sum, n, tenths) == 10 * sum < tenths * CPX * n
AvgGt(sum, n, tenths) == 10 * sum > tenths * CPX * n
AvgGe(sum, n, tenths) == 10 * sum >= tenths * CPX * n

\* Math.sign(a) !== Math.sign(b) on a field of two Movement Samples; the
\* sign of an undefined field is NaN, which differs from everything
SignDiffers(m, p, F(_)) == ~m.full \/ ~p.full \/ Sign(F(m)) # Sign(F(p))

\* one entry of the actions list, present when its condition holds
Act(cond, action, category) ==
    IF cond THEN <<[action |-> action, category |-> category]>> ELSE <<>>

priorityOrder ==
    << "vocalization", "jumping", "play", "stress", "body", "transition", "attention",
       "pattern", "spatial", "locomotion", "posture", "tail", "rest", "direction" >>

vocalActions ==
    [ bark |-> "barking", growl |-> "growling", whine |-> "whining",
      howl |-> "howling", yelp |-> "yelping" ]

\* the locomotion band of a dog that moves; none for one holding position
EmoLocomotionMoving(e) ==
    LET mh == e.movementHistory
        last15 == SliceLast(mh, 15)
        n15 == Min(15, Len(mh))
        s15 == SumSeq([i \in 1..Len(last15) |-> last15[i].speed])
        Lt(t) == IF Len(mh) > 0 THEN AvgLt(s15, n15, t) ELSE 0 < t
    IN  IF Lt(5) THEN <<>>
        ELSE IF Lt(30) THEN Act(TRUE, "slow-movement", "locomotion")
        ELSE IF Lt(70) THEN Act(TRUE, "walking", "locomotion")
        ELSE IF Lt(140) THEN Act(TRUE, "trotting", "locomotion")
        ELSE IF Lt(250) THEN Act(TRUE, "running", "locomotion")
        ELSE Act(~Lt(250), "sprinting", "locomotion")

\* _classifyActions: the locomotion band of the 15-frame average speed, an
\* if / else-if chain whose last test is avgSpeed >= 25
EmoLocomotion(e) ==
    LET mh == e.movementHistory
        last15 == SliceLast(mh, 15)
        n15 == Min(15, Len(mh))
        s15 == SumSeq([i \in 1..Len(last15) |-> last15[i].speed])
        Lt(t) == IF Len(mh) > 0 THEN AvgLt(s15, n15, t) ELSE 0 < t
    IN  IF Lt(5) THEN Act(TRUE, "stationary", "locomotion")
        ELSE IF Lt(30) THEN Act(TRUE, "slow-movement", "locomotion")
        ELSE IF Lt(70) THEN Act(TRUE, "walking", "locomotion")
        ELSE IF Lt(140) THEN Act(TRUE, "trotting", "locomotion")
        ELSE IF Lt(250) THEN Act(TRUE, "running", "locomotion")
        ELSE Act(~Lt(250), "sprinting", "locomotion")

\* the actions list of _classifyActions(movement, barkData), in push order
EmoActions(e, movement, barkData) ==
    LET mh == e.movementHistory
        fh == e.frameHistory
        pat == e.patterns
        speed == movement.speed
        last15 == SliceLast(mh, 15)
        n15 == Min(15, Len(mh))
        s15 == SumSeq([i \in 1..Len(last15) |-> last15[i].speed])
        Lt(t) == IF Len(mh) > 0 THEN AvgLt(s15, n15, t) ELSE 0 < t
        Gt(t) == IF Len(mh) > 0 THEN AvgGt(s15, n15, t) ELSE 0 > t
        recentMoves == SliceLast(mh, 20)
        nrm == Len(recentMoves)
        curr == fh[Len(fh)]
        hasPrev == Len(fh) >= 2
        sumDx == SumSeq([i \in 1..nrm |-> recentMoves[i].dx])
        sumDy == SumSeq([i \in 1..nrm |-> recentMoves[i].dy])
        direction ==
            IF ~Gt(20) THEN <<>>
            ELSE IF Abs(sumDx) > Abs(sumDy)
                 THEN Act(TRUE, IF sumDx > 0 THEN "moving-right" ELSE "moving-left",
                          "direction")
            ELSE Act(Abs(sumDy) > 2 * CPX * nrm,
                     IF sumDy > 0 THEN "moving-away" ELSE "moving-toward", "direction")
        ph == e.postureHistory
        prevP == ph[Len(ph) - 1]
        currP == ph[Len(ph)]
        transition ==
            IF Len(ph) < 2 \/ prevP = currP THEN <<>>
            ELSE IF prevP = "stand" /\ currP = "sit" THEN Act(TRUE, "sitting-down", "transition")
            ELSE IF prevP = "stand" /\ currP = "down"
                 THEN Act(TRUE, "lying-down-from-stand", "transition")
            ELSE IF prevP = "sit" /\ currP = "down" THEN Act(TRUE, "settling-down", "transition")
            ELSE IF prevP = "down" /\ currP = "stand" THEN Act(TRUE, "getting-up", "transition")
            ELSE IF prevP = "sit" /\ currP = "stand" THEN Act(TRUE, "standing-up", "transition")
            ELSE Act(currP = "crouch", "lowering-body", "transition")
        last10 == SliceLast(recentMoves, 10)
        sameDir == Count(last10, LAMBDA m : m.direction = movement.direction
                                            /\ m.speed > 2 * CPX)
        dirChanges == Cardinality({ i \in 2..nrm :
            /\ recentMoves[i].direction # recentMoves[i - 1].direction
            /\ recentMoves[i].speed > 8 * CPX })
        zoomies ==
            IF Gt(150) /\ pat.spinning > 0 THEN Act(TRUE, "zoomies", "play")
            ELSE Act(Gt(180) /\ dirChanges > 4, "zoomies", "play")
        r6 == SliceLast(recentMoves, 6)
        sizeOsc == Cardinality({ i \in 2..Len(r6) :
            /\ Sign(r6[i].sizeChange) # Sign(r6[i - 1].sizeChange)
            /\ Abs(r6[i].sizeChange) > 50 })
        posOsc == Cardinality({ i \in 2..Len(r6) :
            /\ SignDiffers(r6[i], r6[i - 1], LAMBDA m : m.dx)
            /\ Abs(r6[i].dx) > 3 * CPX })
        f5 == SliceLast(fh, 5)
        bigARChanges == Cardinality({ i \in 2..Len(f5) :
            Abs(f5[i].aspectRatio - f5[i - 1].aspectRatio) > 300 })
        f10 == SliceLast(fh, 10)
        areas == {f10[i].area \div PX : i \in 1..Len(f10)}
        maxArea == CHOOSE a \in areas : \A b \in areas : b <= a
        minArea == CHOOSE a \in areas : \A b \in areas : b >= a
        r8 == SliceLast(recentMoves, 8)
        vertActivity == Count(r8, LAMBDA m : Abs(m.dy) > 3 * CPX)
        horizActivity == Count(r8, LAMBDA m : Abs(m.dx) > 5 * CPX)
        smallOsc == Count(r6, LAMBDA m : m.speed > CPX /\ m.speed < 5 * CPX)
        noTravel == \A i \in 1..Len(r6) : r6[i].speed < 6 * CPX
        hasOsc == Cardinality({ i \in 2..Len(r6) :
            SignDiffers(r6[i], r6[i - 1], LAMBDA m : m.dy) })
        p5 == SliceLast(mh, 5)
        smallMoves == Count(recentMoves, LAMBDA m : 2 * m.speed > CPX /\ m.speed < 4 * CPX)
        lateralOsc == Cardinality({ i \in 2..nrm :
            /\ SignDiffers(recentMoves[i], recentMoves[i - 1], LAMBDA m : m.dx)
            /\ Abs(recentMoves[i].dx) > CPX })
        recent5p == SliceLast(ph, 5)
        vocal == ~IsNull(barkData) /\ Val(barkData).isVocalizing
        bd == Val(barkData)
    IN
       EmoLocomotion(e)
    \o direction
    \o Act(movement.dy < -12 * CPX /\ movement.acceleration > 8 * CPX, "jumping-up", "jumping")
    \o Act(movement.dy > 12 * CPX /\ Len(mh) > 2 /\ mh[Len(mh) - 1].dy < -5 * CPX,
           "landing", "jumping")
    \o Act(pat.bouncing > 4, "bouncing", "jumping")
    \o Act(pat.jumping > 2, "repeated-jumping", "jumping")
    \o Act(movement.verticalOscillation > 0 /\ Gt(30) /\ Lt(120), "hopping", "jumping")
    \o Act(e.currentPosture = "stand", "standing", "posture")
    \o Act(e.currentPosture = "sit", "sitting", "posture")
    \o Act(e.currentPosture = "down", "lying-down", "posture")
    \o Act(e.currentPosture = "crouch", "crouching", "posture")
    \o transition
    \o Act(curr.aspectRatio < 450 /\ Lt(20), "begging", "posture")
    \o Act(pat.approaching > 3, "approaching", "spatial")
    \o Act(pat.retreating > 3, "retreating", "spatial")
    \o Act(hasPrev /\ movement.sizeChange > 500 /\ speed > 10 * CPX, "lunging", "spatial")
    \o Act(movement.sizeChange < -100 /\ Gt(10) /\ Lt(50), "backing-up", "spatial")
    \o Act(nrm >= 10 /\ sameDir >= 7, "following", "spatial")
    \o Act(pat.playBows > 0, "play-bow", "play")
    \o zoomies
    \o Act(Gt(100) /\ pat.pacing > 0, "chase-play", "play")
    \o Act(movement.dy > 8 * CPX /\ movement.sizeChange > 300 /\ speed > 8 * CPX,
           "pouncing", "play")
    \o Act(nrm >= 6 /\ sizeOsc >= 3 /\ posOsc >= 2, "shaking-off", "body")
    \o Act(nrm >= 5 /\ Len(f5) >= 5 /\ bigARChanges >= 2 /\ movement.verticalOscillation > 0,
           "rolling", "body")
    \o Act(Len(fh) >= 10 /\ 10 * maxArea > 13 * minArea
               /\ 10 * (curr.area \div PX) < 9 * maxArea /\ Lt(30), "stretching", "body")
    \o Act(nrm >= 8 /\ vertActivity >= 4 /\ horizActivity <= 2 /\ Lt(60), "digging", "body")
    \o Act(e.currentPosture = "down" /\ Gt(10) /\ Lt(50), "crawling", "body")
    \o Act(nrm >= 6 /\ smallOsc >= 4 /\ noTravel /\ hasOsc >= 3, "scratching", "body")
    \o Act(pat.headTilts > 2, "head-tilting", "attention")
    \o Act(Len(mh) >= 5 /\ p5[1].speed > 5 * CPX /\ p5[2].speed > 5 * CPX
               /\ p5[4].speed < CPX /\ p5[5].speed < CPX, "freeze", "attention")
    \o Act(Len(mh) >= 5 /\ p5[1].speed < CPX /\ p5[2].speed < CPX
               /\ p5[4].speed > 10 * CPX, "startled", "attention")
    \o Act(Gt(5) /\ Lt(40) /\ e.currentPosture = "stand" /\ smallMoves > 10 /\ nrm >= 12,
           "sniffing", "attention")
    \o Act(Lt(30) /\ pat.stillness < 10 /\ lateralOsc >= 3, "looking-around", "attention")
    \o Act(pat.spinning > 0, "spinning", "pattern")
    \o Act(pat.pacing > 3, "pacing", "pattern")
    \o Act(pat.restlessness > 5, "restless", "pattern")
    \o Act(Len(ph) >= 5 /\ (\E i \in 1..3 : recent5p[i] = "stand")
               /\ recent5p[5] = "down" /\ pat.spinning > 0, "nesting", "pattern")
    \o Act(e.currentPosture = "stand" /\ pat.stillness > 15 /\ Lt(10), "guarding", "pattern")
    \o (IF pat.tailWagLikely > 6 THEN Act(TRUE, "tail-wagging-fast", "tail")
        ELSE Act(pat.tailWagLikely > 3, "tail-wagging", "tail"))
    \o Act(e.currentPosture = "crouch" /\ pat.retreating > 2, "cowering", "stress")
    \o Act(pat.stillness > 25 /\ e.currentPosture = "crouch", "freezing-fearful", "stress")
    \o (IF vocal
        THEN Act(bd.currentType \in DOMAIN vocalActions,
                 IF bd.currentType \in DOMAIN vocalActions
                 THEN vocalActions[bd.currentType] ELSE "", "vocalization")
          \o Act(bd.barkRate > 30, "rapid-barking", "vocalization")
          \o Act(bd.barkRate > 5 /\ bd.barkRate <= 15, "intermittent-barking", "vocalization")
        ELSE <<>>)
    \o Act(e.currentPosture = "down" /\ pat.stillness > 25, "resting", "rest")
    \o Act(e.currentPosture = "down" /\ pat.stillness > 50, "sleeping", "rest")

\* the first action of the list taken as the primary one
EmoRecordFirstAction(e, actions) ==
    [ e EXCEPT !.currentAction = actions[1].action,
               !.activeActions = actions,
               !.actionHistory = PushCap(@, [action |-> actions[1].action,
                                             time |-> Len(e.frameHistory)],
                                         maxActionHistory) ]

\* _classifyActions(movement, barkData), once the list of actions is built
EmoRecordActions(e, actions) ==
    LET present == {actions[i].category : i \in 1..Len(actions)}
        ranked == SelectSeq(priorityOrder, LAMBDA c : c \in present)
        primary ==
            IF Len(ranked) > 0
            THEN LET i == CHOOSE i \in 1..Len(actions) :
                            /\ actions[i].category = ranked[1]
                            /\ \A j \in 1..(i - 1) : actions[j].category # ranked[1]
                 IN  actions[i].action
            ELSE IF Len(actions) > 0 THEN actions[1].action ELSE "observing"
        names == [i \in 1..Len(actions) |-> actions[i].action]
        old == e.actionCounts
        known == {old[i].key : i \in 1..Len(old)}
        bumped == [ i \in 1..Len(old) |->
                      [ old[i] EXCEPT !.count =
                          @ + Cardinality({j \in 1..Len(names) : names[j] = old[i].key}) ] ]
    IN  [ e EXCEPT !.currentAction = primary,
                   !.activeActions = actions,
                   !.actionHistory = PushCap(@, [action |-> primary, time |-> Len(e.frameHistory)],
                                             maxActionHistory),
                   !.actionCounts =
                       bumped \o Tally(SelectSeq(names, LAMBDA a : a \notin known)) ]

\* _classifyActions(movement, barkData)
EmoClassifyActions(e, movement, barkData) ==
    EmoRecordActions(e, EmoActions(e, movement, barkData))

\* one entry of a list, present when its condition holds
Item(cond, x) == IF cond THEN <<x>> ELSE <<>>

\* a score contribution
Pts(cond, v) == IF cond THEN v ELSE 0

\* the signals pushed by _buildSignalList(movement, barkData), as
\* [type, signal] without the explanatory text
EmoBuildSignalList(e, movement, barkData) ==
    LET mh == e.movementHistory
        last30 == SliceLast(mh, 30)
        n30 == Min(30, Len(mh))
        s30 == SumSeq([i \in 1..Len(last30) |-> last30[i].speed])
        pat == e.patterns
        vocal == ~IsNull(barkData) /\ Val(barkData).isVocalizing
        bd == Val(barkData)
        Sig(c, type, signal) == Item(c, [type |-> type, signal |-> signal])
    IN
       Sig(e.currentPosture # "unknown", "posture", e.currentPosture)
    \o (IF AvgGt(s30, n30, 120) THEN Sig(TRUE, "movement", "High-speed movement detected")
        ELSE IF AvgGt(s30, n30, 50) THEN Sig(TRUE, "movement", "Moderate movement")
        ELSE Sig(AvgLt(s30, n30, 15), "movement", "Very little movement"))
    \o Sig(pat.pacing > 3, "pattern", "Repetitive pacing detected")
    \o Sig(pat.bouncing > 2, "pattern", "Bouncing/jumping movement")
    \o Sig(pat.spinning > 0, "pattern", "Spinning/circling detected")
    \o Sig(pat.playBows > 0, "pattern", "Play bow detected!")
    \o Sig(pat.headTilts > 2, "pattern", "Head tilting detected")
    \o Sig(pat.approaching > 3, "pattern", "Approaching camera/owner")
    \o Sig(pat.retreating > 3, "pattern", "Moving away")
    \o Sig(pat.restlessness > 5, "pattern", "Restless behavior")
    \o Sig(pat.tailWagLikely > 3, "pattern", "Possible tail wagging")
    \o Sig(pat.stillness > 20, "pattern", "Sustained stillness")
    \o Sig(pat.jumping > 2, "pattern", "Jumping detected")
    \o (IF vocal
        THEN Sig(TRUE, "audio", bd.currentType)
             \o Sig(bd.interBarkInterval > 0, "audio", "Inter-bark interval")
        ELSE <<>>)

emotionNames ==
    << "happy", "excited", "playful", "calm", "anxious", "stressed", "fearful",
       "aggressive", "alert", "sad", "curious" >>

\* no bonus for calm from the stillness override
NoStillnessCalm(stillness, vocal) == 0

\* no suppression of playful and excited by the stillness override
NoStillnessFactor(stillness) == 100

\* STILLNESS OVERRIDE: the percentage of scores.playful and scores.excited
\* that it keeps
EmoStillnessFactor(stillness) ==
    IF stillness > 15 THEN 15 ELSE IF stillness > 8 THEN 40 ELSE 100

\* STILLNESS OVERRIDE: what it adds to scores.calm
EmoStillnessCalm(stillness, vocal) ==
    IF stillness > 15 THEN 30 + Pts(~vocal, 20) ELSE Pts(stillness > 8, 15)

\* the scores object of _assessEmotion(movement, barkData) after every
\* scoring rule and override, before the stability bonus
EmoFreshScores(e, barkData) ==
    LET mh == e.movementHistory
        last30 == SliceLast(mh, 30)
        n30 == Min(30, Len(mh))
        s30 == SumSeq([i \in 1..Len(last30) |-> last30[i].speed])
        Lt(t) == AvgLt(s30, n30, t)
        Gt(t) == AvgGt(s30, n30, t)
        pat == e.patterns
        P == e.currentPosture
        vocal == ~IsNull(barkData) /\ Val(barkData).isVocalizing
        bd == Val(barkData)
        ty(t) == vocal /\ bd.currentType = t
        bark(d) == ty("bark") /\ bd.dominantType = d
        barkOther == ty("bark")
                     /\ bd.dominantType \notin {"alert", "play", "anxiety", "demand", "aggressive"}
        ibi == IF vocal THEN bd.interBarkInterval ELSE 0
        ibiOn == vocal /\ ibi > 0
        tonal == vocal /\ bd.tonality > 60
        noisy == vocal /\ ~(bd.tonality > 60) /\ bd.tonality < 30
        rate == IF vocal THEN bd.barkRate ELSE 0
        pitch == IF vocal THEN bd.avgPitch ELSE 0
        base ==
          [ happy |-> Pts(P = "stand", 5) + Pts(Gt(30) /\ Lt(100), 20)
                      + Pts(pat.bouncing > 2, 15) + Pts(pat.playBows > 0, 20)
                      + Pts(pat.approaching > 3, 10) + Pts(pat.jumping > 1, 10)
                      + Pts(pat.tailWagLikely > 3, 20) + Pts(bark("play"), 15)
                      + Pts(tonal, 8),
            excited |-> Pts(Gt(80) /\ pat.bouncing > 2, 25) + Pts(Gt(150), 30)
                      + Pts(pat.spinning > 0, 20) + Pts(pat.jumping > 1, 25)
                      + Pts(pat.tailWagLikely > 3, 10) + Pts(bark("alert"), 10)
                      + Pts(bark("demand"), 15) + Pts(ibiOn /\ ibi < 200, 15)
                      + Pts(rate > 30, 15) + Pts(pitch > 600, 10),
            playful |-> Pts(P = "crouch", 15) + Pts(Gt(80) /\ pat.bouncing > 2, 35)
                      + Pts(pat.bouncing > 2, 25) + Pts(pat.playBows > 0, 40)
                      + Pts(pat.jumping > 1, 15) + Pts(pat.tailWagLikely > 3, 10)
                      + Pts(bark("play"), 30) + Pts(tonal, 5),
            calm |-> Pts(P = "down", 25) + Pts(P = "sit", 12) + Pts(Lt(20), 25)
                      + Pts(pat.stillness > 15, 15) + Pts(ibiOn /\ ibi >= 500, 5)
                      + Pts(~vocal /\ pat.stillness > 10, 15),
            anxious |-> Pts(pat.pacing > 3, 30) + Pts(pat.restlessness > 5, 20)
                      + Pts(bark("anxiety"), 35) + Pts(bark("demand"), 10)
                      + Pts(ty("whine"), 25) + Pts(ty("howl"), 15)
                      + Pts(ibiOn /\ ibi < 200, 15) + Pts(ibiOn /\ ibi >= 200 /\ ibi < 500, 5)
                      + Pts(rate > 30, 15) + Pts(pitch > 600, 5),
            stressed |-> Pts(P = "crouch", 10) + Pts(Gt(150), 10) + Pts(pat.pacing > 3, 25)
                      + Pts(pat.spinning > 0 /\ pat.pacing > 2, 15)
                      + Pts(pat.retreating > 3, 15) + Pts(pat.restlessness > 5, 15)
                      + Pts(bark("anxiety"), 20) + Pts(ty("growl"), 10)
                      + Pts(ty("whine"), 15) + Pts(ty("yelp"), 20) + Pts(noisy, 5),
            fearful |-> Pts(P = "down", 3) + Pts(P = "crouch", 20)
                      + Pts(pat.retreating > 3, 25) + Pts(ty("yelp"), 30)
                      + Pts(ibiOn /\ ibi < 200, 10),
            aggressive |-> Pts(bark("aggressive"), 35) + Pts(ty("growl"), 30)
                      + Pts(pitch > 0 /\ pitch < 300, 10) + Pts(noisy, 8),
            alert |-> Pts(P = "sit", 10) + Pts(P = "stand", 8) + Pts(pat.stillness > 15, 15)
                      + Pts(pat.headTilts > 2, 10) + Pts(bark("alert"), 30)
                      + Pts(bark("aggressive"), 15) + Pts(barkOther, 10)
                      + Pts(ty("growl"), 15) + Pts(ibiOn /\ ibi >= 200 /\ ibi < 500, 15)
                      + Pts(ibiOn /\ ibi >= 500, 5) + Pts(rate > 5 /\ rate < 15, 10)
                      + Pts(pitch > 0 /\ pitch < 300, 5),
            sad |-> Pts(P = "down", 8) + Pts(Lt(20), 10) + Pts(ty("whine"), 20)
                      + Pts(ty("howl"), 30),
            curious |-> Pts(P = "sit", 5) + Pts(pat.approaching > 3, 20)
                      + Pts(pat.headTilts > 2, 35) ]
        \* STILLNESS OVERRIDE
        f1 == EmoStillnessFactor(pat.stillness)
        still == [ base EXCEPT
                     !.playful = Round(@ * f1, 100),
                     !.excited = Round(@ * f1, 100),
                     !.calm = @ + EmoStillnessCalm(pat.stillness, vocal) ]
        \* LOW MOVEMENT OVERRIDE
        low == IF Lt(10)
               THEN [ still EXCEPT !.playful = Round(@ * 10, 100),
                                   !.excited = Round(@ * 10, 100),
                                   !.happy = Round(@ * 50, 100),
                                   !.calm = @ + 25 ]
               ELSE still
        eh == e.emotionHistory
        recent == SliceLast(eh, 30)
        emotionChanges == Cardinality({recent[i].emotion : i \in 1..Len(recent)})
        temporal == IF Len(eh) > 30
                    THEN [ low EXCEPT !.anxious = @ + Pts(emotionChanges > 5, 10),
                                      !.stressed = @ + Pts(emotionChanges > 5, 10),
                                      !.calm = @ + Pts(emotionChanges <= 2, 10) ]
                    ELSE low
    IN  temporal

\* the stability bonus from the second assessed frame on
EmoMomentumFromSecond(e, scores) ==
    LET eh == e.emotionHistory
    IN  IF Len(eh) > 0 /\ eh[Len(eh)].emotion \in DOMAIN scores
        THEN [scores EXCEPT ![eh[Len(eh)].emotion] = @ + 12]
        ELSE scores

\* TEMPORAL MOMENTUM: the stability bonus for the last emotion
EmoMomentum(e, scores) ==
    LET eh == e.emotionHistory
    IN  IF Len(eh) > 5 /\ eh[Len(eh)].emotion \in DOMAIN scores
        THEN [scores EXCEPT ![eh[Len(eh)].emotion] = @ + 12]
        ELSE scores

\* the scores object of _assessEmotion(movement, barkData) when it is sorted
EmoScores(e, barkData) == EmoMomentum(e, EmoFreshScores(e, barkData))

\* Object.entries(scores).sort((a, b) => b[1] - a[1]): the names of the
\* emotions by descending score; the sort is stable, so ties keep the order
\* of emotionNames
SortedEmotions(scores) ==
    LET Before(a, b) == \/ scores[emotionNames[a]] > scores[emotionNames[b]]
                        \/ scores[emotionNames[a]] = scores[emotionNames[b]] /\ a < b
        rank(a) == 1 + Cardinality({b \in 1..Len(emotionNames) : Before(b, a)})
    IN  [ r \in 1..Len(emotionNames) |->
            emotionNames[CHOOSE a \in 1..Len(emotionNames) : rank(a) = r] ]

patternNames ==
    << "pacing", "spinning", "bouncing", "stillness", "approaching", "retreating",
       "headTilts", "playBows", "jumping", "crouching", "postureChanges",
       "restlessness", "tailWagLikely" >>

\* _assessEmotion(movement, barkData) once the scores are summed: the
\* returned assessment
EmoRankEmotion(e, movement, barkData, scores) ==
    LET sorted == SortedEmotions(scores)
        primary == sorted[1]
        secondary == sorted[2]
        scoreDiff == scores[primary] - scores[secondary]
        c0 == Min(95, Max(15, scores[primary] + scoreDiff))
        hasAudio == ~IsNull(barkData) /\ Val(barkData).isVocalizing
        hasPosture == e.currentPosture # "unknown"
        hasPatterns == \E i \in 1..Len(patternNames) : e.patterns[patternNames[i]] > 0
        nf == Len(e.frameHistory)
        c1 == IF nf < 30 THEN Round(c0 * nf, 30) ELSE c0
        dataQuality ==
            IF hasAudio /\ hasPosture /\ hasPatterns THEN "full-multimodal"
            ELSE IF hasAudio THEN "visual+audio"
            ELSE IF ~hasPatterns /\ e.patterns.stillness < 5 THEN "limited-visual"
            ELSE "visual-only"
        confidence ==
            IF dataQuality = "full-multimodal" THEN Min(95, c1 + 10)
            ELSE IF dataQuality = "visual+audio" THEN Min(90, c1 + 5)
            ELSE IF dataQuality = "limited-visual" THEN Max(15, c1 - 10)
            ELSE c1
        mh == e.movementHistory
        last30 == SliceLast(mh, 30)
        n30 == Min(30, Len(mh))
        s30 == SumSeq([i \in 1..Len(last30) |-> last30[i].speed])
        audioIntensity == IF hasAudio THEN Val(barkData).intensity ELSE 0
        intensity ==
            Min(100, Round(6 * s30 + (audioIntensity + 10 * e.patterns.bouncing) * CPX * n30,
                           2 * CPX * n30))
        currFrame == e.frameHistory[nf]
    IN
    [ primary |-> primary,
      secondary |-> IF scores[secondary] > 10 THEN Some(secondary) ELSE Null,
      confidence |-> confidence,
      intensity |-> intensity,
      scores |-> scores,
      patterns |-> e.patterns,
      posture |-> e.currentPosture,
      movement |-> [ avgSpeed |-> Round(10 * s30, CPX * n30),
                     direction |-> movement.direction ],
      rawReadings |->
        [ movementSpeed |-> Round(10 * s30, CPX * n30),
          instantSpeed |-> Round(10 * movement.speed, CPX),
          bodyWidth |-> Round(currFrame.box.width, PX),
          bodyHeight |-> Round(currFrame.box.height, PX),
          aspectRatio |-> Round(currFrame.aspectRatio, 10),
          verticalOscillation |-> movement.verticalOscillation,
          edgeOscillation |-> movement.edgeOscillation,
          framesAnalyzed |-> nf,
          stillnessScore |-> e.patterns.stillness,
          activePatterns |-> SelectSeq(patternNames, LAMBDA k : e.patterns[k] > 0) ],
      detectedSignals |-> e.detectedSignals,
      scoreDiff |-> scoreDiff,
      dataQuality |-> dataQuality,
      needs |-> e.currentNeeds ]

\* _assessEmotion(movement, barkData)
EmoAssessEmotion(e, movement, barkData) ==
    EmoRankEmotion(e, movement, barkData, EmoScores(e, barkData))

\* the needs pushed by _assessNeeds(emotion, barkData), as [need, urgency]
EmoAssessNeeds(e, emotion, barkData) ==
    LET primary == emotion.primary
        patterns == emotion.patterns
        isVocal == ~IsNull(barkData) /\ Val(barkData).isVocalizing
        bd == Val(barkData)
        Need(c, need, urgency) == Item(c, [need |-> need, urgency |-> urgency])
        found ==
               Need(primary = "playful" \/ primary = "excited" \/ patterns.bouncing > 2
                        \/ patterns.playBows > 0 \/ patterns.jumping > 1,
                    "Play & Exercise",
                    IF primary = "playful" /\ patterns.playBows > 0 THEN "high" ELSE "moderate")
            \o Need((primary = "excited" \/ primary = "happy") /\ patterns.approaching > 3,
                    "Attention & Interaction", "moderate")
            \o Need(isVocal /\ bd.dominantType = "demand", "Attention - Demand", "high")
            \o Need(primary = "anxious" /\ patterns.pacing > 3 /\ ~isVocal,
                    "Bathroom Break", "high")
            \o Need(primary \in {"anxious", "stressed", "fearful"}, "Comfort & Safety",
                    IF primary = "fearful" THEN "high" ELSE "moderate")
            \o Need(primary = "calm" /\ e.currentPosture = "down" /\ patterns.stillness > 15,
                    "Rest", "low")
            \o Need(primary = "aggressive" \/ (primary = "fearful" /\ patterns.retreating > 3),
                    "Space & Distance", "high")
            \o Need(primary = "sad" /\ patterns.stillness > 20 /\ isVocal
                        /\ bd.currentType = "whine",
                    "Possible Medical Attention", "moderate")
            \o Need(primary = "sad" /\ isVocal /\ bd.currentType = "howl",
                    "Companionship", "high")
            \o Need(primary = "curious" \/ patterns.headTilts > 3, "Mental Stimulation", "low")
    IN  IF Len(found) = 0 THEN <<[need |-> "Monitoring", urgency |-> "low"]>> ELSE found

\* _defaultAssessment()
EmoDefaultAssessment(e) ==
    [ primary |-> "observing", secondary |-> Null, confidence |-> 0, intensity |-> 0,
      patterns |-> e.patterns, posture |-> "unknown",
      movement |-> [avgSpeed |-> 0, direction |-> "still"],
      detectedSignals |-> <<>>, dataQuality |-> "none", needs |-> <<>>,
      currentAction |-> "observing", activeActions |-> <<>> ]

\* processFrame(): the EMA step and the push of the frameData record
EmoPushFrame(e, rawBox) ==
    LET box == EmoSmooth(e, rawBox)
    IN  [ e EXCEPT !.smoothedBox = Some(box),
                   !.frameHistory = PushCap(@, EmoFrameData(box), maxHistoryFrames) ]

\* processFrame() from _assessNeeds() to its return, given the assessment
\* of _assessEmotion()
EmoFrameResult(e, emotion, barkData) ==
    [ engine |->
        [ e EXCEPT
            !.currentNeeds = EmoAssessNeeds(e, emotion, barkData),
            !.emotionHistory =
                PushCap(@, [ time |-> Len(e.frameHistory), emotion |-> emotion.primary,
                             confidence |-> emotion.confidence,
                             intensity |-> emotion.intensity ], maxEmotionHistory),
            !.primaryEmotion = emotion.primary,
            !.secondaryEmotion = emotion.secondary,
            !.emotionConfidence = emotion.confidence,
            !.emotionIntensity = emotion.intensity ],
      emotion |-> [ primary |-> emotion.primary, secondary |-> emotion.secondary,
                    confidence |-> emotion.confidence, intensity |-> emotion.intensity,
                    scores |-> emotion.scores, patterns |-> emotion.patterns,
                    posture |-> emotion.posture, movement |-> emotion.movement,
                    rawReadings |-> emotion.rawReadings,
                    detectedSignals |-> emotion.detectedSignals,
                    scoreDiff |-> emotion.scoreDiff,
                    dataQuality |-> emotion.dataQuality, needs |-> emotion.needs,
                    currentAction |-> e.currentAction,
                    activeActions |-> e.activeActions ] ]

\* processFrame(): this.detectedSignals = this._buildSignalList(...)
EmoFrameSignals(e, movement, barkData) ==
    [e EXCEPT !.detectedSignals = EmoBuildSignalList(e, movement, barkData)]

\* processFrame() from the push of the movement to _buildSignalList()
EmoFrameActions(e, movement, barkData) ==
    EmoFrameSignals(
        EmoClassifyActions(
            EmoDetectPatterns([e EXCEPT !.movementHistory =
                                            PushCap(@, movement, maxHistoryFrames)]),
            movement, barkData),
        movement, barkData)

\* processFrame() from the push of the movement on
EmoFrameAssess(e, movement, barkData) ==
    EmoFrameResult(e, EmoAssessEmotion(e, movement, barkData), barkData)

\* processFrame() from _computeMovement() on, given the movement
EmoFrameMovement(e, movement, barkData) ==
    EmoFrameAssess(EmoFrameActions(e, movement, barkData), movement, barkData)

\* processFrame() from _computeMovement() on
EmoFrameAnalyse(e, barkData) ==
    EmoFrameMovement(e, EmoComputeMovement(e), barkData)

\* processFrame(detection, barkData): the engine afterwards and the
\* returned assessment.  detection is Null or Some([box |-> ...]).
EmoProcessFrame(e, detection, barkData) ==
    IF IsNull(detection)
    THEN [engine |-> e, emotion |-> EmoDefaultAssessment(e)]
    ELSE EmoFrameAnalyse(EmoEstimatePosture(EmoPushFrame(e, Val(detection).box)), barkData)

\* entries.sort((a, b) => b[1] - a[1]): by descending count, ties in
\* insertion order
SortDesc(counts) ==
    LET n == Len(counts)
        Before(a, b) == \/ counts[a].count > counts[b].count
                        \/ counts[a].count = counts[b].count /\ a < b
        rank(a) == 1 + Cardinality({b \in 1..n : Before(b, a)})
    IN  [r \in 1..n |-> counts[CHOOSE a \in 1..n : rank(a) = r]]

\* filter((e, i) => i % 30 === 0)
EveryThirtieth(s) == [k \in 1..((Len(s) + 29) \div 30) |-> s[30 * (k - 1) + 1]]

positiveEmotions == {"happy", "playful", "calm", "curious", "excited"}
negativeEmotions == {"anxious", "stressed", "fearful", "aggressive", "sad"}

\* _insufficientData()
EmoInsufficientData ==
    [ duration |-> 0, framesAnalyzed |-> 0, dominantEmotion |-> "unknown",
      currentEmotion |-> "unknown", emotionDistribution |-> <<>>,
      confidence |-> 0, intensity |-> 0, stability |-> 0, wellbeing |-> 50,
      emotionChanges |-> 0, patterns |-> <<>>,
      posture |-> [current |-> "unknown", distribution |-> <<>>],
      movement |-> [avgSpeed |-> 0, energyLevel |-> "none"],
      needs |-> <<>>, detectedSignals |-> <<>>, timeline |-> <<>>,
      actionSummary |-> [ primary |-> "observing", allDetected |-> <<>>,
                          topActions |-> <<>>, totalUniqueActions |-> 0,
                          timeline |-> <<>> ] ]

\* fullAnalysis(); durations and speeds in tenths
EmoFullAnalysis(e) ==
    IF Len(e.frameHistory) < 10 THEN EmoInsufficientData
    ELSE
    LET eh == e.emotionHistory
        total == Len(eh)
        emotionCounts == Tally([i \in 1..total |-> eh[i].emotion])
        emotionChanges == Cardinality({i \in 2..total : eh[i].emotion # eh[i - 1].emotion})
        positiveTime == Cardinality({i \in 1..total : eh[i].emotion \in positiveEmotions})
        negativeTime == Cardinality({i \in 1..total : eh[i].emotion \in negativeEmotions})
        wellbeingScore ==
            IF total > 0
            THEN Round(200 * positiveTime - 100 * negativeTime + 100 * total, 2 * total)
            ELSE 50
        mh == e.movementHistory
        sumSpeed == SumSeq([i \in 1..Len(mh) |-> mh[i].speed])
        nSpeed == Max(1, Len(mh))
        sortedActions == SortDesc(e.actionCounts)
        ah == e.actionHistory
        actionFreq == Tally([i \in 1..Len(ah) |-> ah[i].action])
        et == EveryThirtieth(eh)
        at == EveryThirtieth(ah)
    IN
    [ duration |-> Round(10 * Len(e.frameHistory), 30),
      framesAnalyzed |-> Len(e.frameHistory),
      dominantEmotion |-> TopKey(emotionCounts, "calm"),
      currentEmotion |-> e.primaryEmotion,
      emotionDistribution |->
          [ i \in 1..Len(emotionCounts) |->
              [ key |-> emotionCounts[i].key,
                percent |-> Round(100 * emotionCounts[i].count, total) ] ],
      confidence |-> IF total > 0
                     THEN Round(SumSeq([i \in 1..total |-> eh[i].confidence]), total) ELSE 0,
      intensity |-> IF total > 0
                    THEN Round(SumSeq([i \in 1..total |-> eh[i].intensity]), total) ELSE 0,
      stability |-> Max(0, 100 - Round(200 * emotionChanges, Max(1, total))),
      wellbeing |-> Max(0, Min(100, wellbeingScore)),
      emotionChanges |-> emotionChanges,
      patterns |-> e.patterns,
      posture |-> [ current |-> e.currentPosture,
                    distribution |-> Tally(e.postureHistory) ],
      movement |-> [ avgSpeed |-> Round(10 * sumSpeed, CPX * nSpeed),
                     energyLevel |-> IF AvgGt(sumSpeed, nSpeed, 100) THEN "high"
                                     ELSE IF AvgGt(sumSpeed, nSpeed, 40) THEN "moderate"
                                     ELSE "low" ],
      needs |-> e.currentNeeds,
      detectedSignals |-> e.detectedSignals,
      timeline |-> [ i \in 1..Len(et) |->
                       [ time |-> Round(10 * et[i].time, 30), emotion |-> et[i].emotion,
                         confidence |-> et[i].confidence ] ],
      actionSummary |->
          [ primary |-> TopKey(actionFreq, "observing"),
            allDetected |-> e.actionCounts,
            topActions |-> SliceFirst(sortedActions, 20),
            totalUniqueActions |-> Len(sortedActions),
            timeline |-> [ i \in 1..Len(at) |->
                             [ time |-> Round(10 * at[i].time, 30),
                               action |-> at[i].action ] ] ] ]

(***************************************************************************)
(* js/app.js: the scan session and its frame loop                          *)
(*                                                                         *)
(* The 369 engine and the translator only consume the assessments of a     *)
(* frame and are left out, as is all rendering except the flags that       *)
(* enable a button or show the results panel.  Detector scores are in      *)
(* hundredths.                                                             *)
(***************************************************************************)
DOG_PERSISTENCE_FRAMES == 15
DOG_CLASSES == {"dog"}
ANIMAL_FALLBACK == {"cat", "bear", "horse", "cow", "sheep"}

\* the module-level state of app.js once loadModels() has enabled Start
AppLoaded ==
    [ running |-> FALSE,
      stream |-> Null,               \* Some([audio |-> has an audio track])
      micAvailable |-> FALSE,
      facingMode |-> "environment",
      frameCount |-> 0,
      dogDetectionCount |-> 0,
      scanMode |-> "continuous",
      scanDurationLimit |-> 0,
      lastDogDetection |-> Null,
      framesSinceLastDog |-> 999,
      btnStartDisabled |-> FALSE,
      btnStopDisabled |-> TRUE,
      modeSelectorShown |-> TRUE,
      resultsActive |-> FALSE,
      rendered |-> Null ]            \* the reports shown in the results panel

\* startCamera() up to its first await: an open stream is stopped
AppStartCamera(a) == [a EXCEPT !.stream = Null]

\* startCamera() after its getUserMedia attempts, up to the await of the
\* video: got is Null when every attempt was rejected; without a stream
\* startCamera() returns false
AppGotUserMedia(a, got) ==
    LET stream == IF IsNull(got) THEN a.stream ELSE got
    IN  IF IsNull(stream) THEN a
        ELSE [a EXCEPT !.stream = stream, !.micAvailable = Val(stream).audio]

\* completeScan() on s = [app, bark, emo]
AppCompleteScan(s) ==
    LET emotionReport == EmoFullAnalysis(s.emo)
        barkReport == BarkFullAnalysis(s.bark)
    IN  [ app |-> [ s.app EXCEPT !.running = FALSE,
                                 !.stream = Null,
                                 !.micAvailable = FALSE,
                                 !.btnStartDisabled = FALSE,
                                 !.btnStopDisabled = TRUE,
                                 !.modeSelectorShown = TRUE,
                                 !.resultsActive = TRUE,
                                 !.rendered = Some([ emotion |-> emotionReport,
                                                     bark |-> barkReport,
                                                     frames |-> s.app.frameCount,
                                                     detections |-> s.app.dogDetectionCount ]) ],
          bark |-> BarkDestroy(s.bark),
          emo |-> s.emo ]

\* startScan() from the return of startCamera() with true up to the call of
\* processFrame(); audioOk = the AudioContext can be opened
AppStartScan(s, audioOk) ==
    LET a1 == [ s.app EXCEPT
                  !.running = TRUE,
                  !.frameCount = 0,
                  !.dogDetectionCount = 0,
                  !.lastDogDetection = Null,
                  !.framesSinceLastDog = 999,
                  !.scanDurationLimit = IF s.app.scanMode = "15" THEN 15000
                                        ELSE IF s.app.scanMode = "30" THEN 30000
                                        ELSE IF s.app.scanMode = "60" THEN 60000
                                        ELSE 0 ]
        b1 == BarkClearAll(s.bark)
        e1 == EmoClearAll(s.emo)
        useMic == a1.micAvailable /\ ~IsNull(a1.stream)
        init == BarkInitAudioContext(b1, audioOk)
        b2 == IF useMic THEN init[1] ELSE b1
        a2 == IF useMic /\ init[2] THEN [a1 EXCEPT !.micAvailable = FALSE] ELSE a1
    IN  [ app |-> [ a2 EXCEPT !.btnStartDisabled = TRUE,
                              !.btnStopDisabled = FALSE,
                              !.modeSelectorShown = FALSE,
                              !.resultsActive = FALSE ],
          bark |-> b2,
          emo |-> e1 ]

\* the dogs of processFrame(): class dog above 0.15, else the fallback
\* animals above 0.25
AppDogs(predictions) ==
    LET dogs == SelectSeq(predictions, LAMBDA p : p.class \in DOG_CLASSES /\ p.score > 15)
        animalFallback == SelectSeq(predictions,
                                    LAMBDA p : p.class \in ANIMAL_FALLBACK /\ p.score > 25)
    IN  IF Len(dogs) = 0 /\ Len(animalFallback) > 0 THEN animalFallback ELSE dogs

\* dogs.reduce((best, d) => d.score > best.score ? d : best, dogs[0])
AppBestDog(dogs) ==
    dogs[CHOOSE i \in 1..Len(dogs) :
            /\ \A j \in 1..Len(dogs) : dogs[j].score <= dogs[i].score
            /\ \A j \in 1..(i - 1) : dogs[j].score < dogs[i].score]

\* processFrame(): the bark engine is fed when it is active (s = [app,
\* bark, emo], audio the analyser buffer of the frame)
AppFeedBark(s, audio) ==
    IF s.bark.isActive THEN [s EXCEPT !.bark = BarkProcessAudioFrame(@, audio)] ELSE s

\* processFrame(): the branch of a frame with a dog, fed to the emotion
\* engine with the bark engine's quickAssess()
AppFeedEmotion(s, dog, barkAssess, persist) ==
    [ app |-> [ s.app EXCEPT !.dogDetectionCount = @ + 1,
                             !.framesSinceLastDog = 0,
                             !.lastDogDetection = Some(dog) ],
      bark |-> s.bark,
      emo |-> EmoProcessFrame(s.emo, Some([box |-> dog.bbox, confidence |-> dog.score]),
                              barkAssess).engine,
      fedBark |-> s.bark.isActive,
      fedEmotion |-> TRUE,
      barkAssess |-> barkAssess,
      stale |-> persist ]

\* processFrame() from the dog persistence to the end of the try block
AppTrackDog(s, detected) ==
    LET persist == /\ Len(detected) = 0
                   /\ ~IsNull(s.app.lastDogDetection)
                   /\ s.app.framesSinceLastDog < DOG_PERSISTENCE_FRAMES
        dogs == IF persist THEN <<Val(s.app.lastDogDetection)>> ELSE detected
        since1 == IF persist THEN s.app.framesSinceLastDog + 1 ELSE s.app.framesSinceLastDog
    IN  IF Len(dogs) > 0
        THEN AppFeedEmotion(s, AppBestDog(dogs),
                            IF s.bark.isActive THEN Some(BarkQuickAssess(s.bark)) ELSE Null,
                            persist)
        ELSE [ app |-> [s.app EXCEPT !.framesSinceLastDog = since1 + 1],
               bark |-> s.bark,
               emo |-> s.emo,
               fedBark |-> s.bark.isActive,
               fedEmotion |-> FALSE,
               barkAssess |-> Null,
               stale |-> FALSE ]

\* processFrame() from the return of cocoModel.detect() to the end of the
\* try block, on s = [app, bark, emo]; audio is the analyser buffer of the
\* frame.  The result also tells which engines were fed and whether the
\* box was the remembered one.
AppFrameBody(s, predictions, audio) ==
    AppTrackDog(AppFeedBark(s, audio), AppDogs(predictions))

\* processFrame() from its entry to the await of cocoModel.detect(), when
\* the scan is running and its time is not up
AppFrameBegin(a) == [a EXCEPT !.frameCount = @ + 1]

\* the page and its engines in the result of a frame
AppState(body) == [app |-> body.app, bark |-> body.bark, emo |-> body.emo]

RECURSIVE AppRun(_, _, _, _)
\* n whole frames in a row on s = [app, bark, emo], each with the same
\* detector result and analyser buffer, as long as the scan is running
AppRun(s, predictions, audio, n) ==
    IF n = 0 THEN s
    ELSE IF n = 1
         THEN AppState(AppFrameBody([s EXCEPT !.app = AppFrameBegin(s.app)],
                                    predictions, audio))
    ELSE LET half == AppRun(s, predictions, audio, n \div 2)
         IN  IF half.app.running
             THEN AppRun(half, predictions, audio, n - (n \div 2))
             ELSE half

\* the page after Start, a granted camera (with or without microphone) and
\* a playing video: startScan() has run up to its call of processFrame()
AppSessionStarted(audio) ==
    AppStartScan([ app |-> AppGotUserMedia(AppStartCamera(AppLoaded), Some([audio |-> audio])),
                   bark |-> BarkConstructor,
                   emo |-> EmoConstructor ], TRUE)

(***************************************************************************)
(* The audio frames and warm-up prefixes the engine is driven with         *)
(***************************************************************************)
AudioQuiet  == [rms |-> 5,   freq |-> 0,   low |-> 0,  mid |-> 0,  high |-> 0]
AudioHum    == [rms |-> 20,  freq |-> 0,   low |-> 0,  mid |-> 0,  high |-> 0]
AudioMurmur == [rms |-> 30,  freq |-> 120, low |-> 50, mid |-> 30, high |-> 20]
AudioBark   == [rms |-> 400, freq |-> 700, low |-> 10, mid |-> 70, high |-> 20]
AudioFrames == {AudioQuiet, AudioHum, AudioMurmur, AudioBark}
\* a louder bark, and a loud sound above the frequency range of a dog
AudioLoud   == [rms |-> 700, freq |-> 700,  low |-> 10, mid |-> 70, high |-> 20]
AudioNoise  == [rms |-> 400, freq |-> 3000, low |-> 10, mid |-> 20, high |-> 70]

\* frames fed to an engine after its warm-up
MaxAudioFrames == 7

RECURSIVE BarkFeed(_, _, _)
\* n frames of the audio frame a in a row to an active engine (in two
\* halves, the first evaluated before the second is begun, which keeps the
\* evaluation shallow)
BarkFeed(b, a, n) ==
    IF n = 0 THEN b
    ELSE IF n = 1 THEN BarkProcessAudioFrame(b, a)
    ELSE LET half == BarkFeed(b, a, n \div 2)
         IN  IF half.isActive THEN BarkFeed(half, a, n - (n \div 2)) ELSE half

BarkStarted == BarkInitAudioContext(BarkClearAll(BarkConstructor), TRUE)[1]

\* an engine right after startScan, and the same engine after a steady room
\* of RMS 0.01 for the 90 baseline frames
BarkWarmUps == { BarkStarted,
                 BarkFeed(BarkStarted, [AudioQuiet EXCEPT !.rms = 10], BASELINE_FRAMES) }

(***************************************************************************)
(* DogVisionAnalyzer (js/dog-vision-analyzer.js)                           *)
(*                                                                         *)
(* The pixels of a frame are left out: a frame is what analyze() measures  *)
(* of it.  Motions and ratios are in ten-thousandths.                      *)
(***************************************************************************)
maxHistory == 90
\* summaries need this many entries of motionHistory
MIN_SUMMARY_FRAMES == 10

\* constructor()
VisionConstructor ==
    [ hasFrame |-> FALSE, smoothedOverallMotion |-> 0, smoothedMicroVib |-> 0,
      smoothedMacroMotion |-> 0, motionHistory |-> <<>> ]

\* _interpretBodyState(overallMotion, microVib, macroMotion, tension, tailWag)
VisionInterpretBodyState(overallMotion, microVib, macroMotion, tension, tailWag) ==
    IF macroMotion > 1500 THEN "very-active"
    ELSE IF macroMotion > 600 THEN "active"
    ELSE IF tension > 50 THEN "tense"
    ELSE IF tailWag >= 3 THEN "wagging"
    ELSE IF microVib > 1500 THEN "vibrating"
    ELSE IF overallMotion < 30 /\ microVib < 300 THEN "very-still"
    ELSE IF overallMotion < 100 THEN "calm"
    ELSE "slight-motion"

\* EMA_ALPHA * x + (1 - EMA_ALPHA) * smoothed, with EMA_ALPHA = 0.3
VisionSmooth(x, smoothed) == Round(3 * x + 7 * smoothed, 10)

\* analyze(videoElement, dogBox) on a usable box: the first frame only fills
\* the frame buffer, every later one appends its result to motionHistory
VisionAnalyze(v, measured) ==
    IF ~v.hasFrame THEN [v EXCEPT !.hasFrame = TRUE]
    ELSE
    LET overall == VisionSmooth(measured.avgDiff, v.smoothedOverallMotion)
        micro == VisionSmooth(measured.microVibRatio, v.smoothedMicroVib)
        macro == VisionSmooth(measured.macroMotionRatio, v.smoothedMacroMotion)
        result == [ overallMotion |-> overall, microVibration |-> micro,
                    macroMotion |-> macro, tailWagScore |-> measured.tailWagScore,
                    tensionScore |-> measured.tensionScore,
                    bodyState |-> VisionInterpretBodyState(overall, micro, macro,
                                      measured.tensionScore, measured.tailWagScore) ]
    IN  [ v EXCEPT !.smoothedOverallMotion = overall, !.smoothedMicroVib = micro,
                   !.smoothedMacroMotion = macro,
                   !.motionHistory = PushCap(@, result, maxHistory) ]

\* getSummary(); avgOverallMotion in ten-thousandths, the two other averages
\* in thousandths
VisionGetSummary(v) ==
    LET h == v.motionHistory
        n == Len(h)
    IN  IF n < MIN_SUMMARY_FRAMES
        THEN [ avgOverallMotion |-> 0, avgMicroVibration |-> 0, avgMacroMotion |-> 0,
               peakTailWag |-> 0, avgTension |-> 0, dominantBodyState |-> "unknown",
               totalFrames |-> n ]
        ELSE [ avgOverallMotion |-> Round(SumSeq([i \in 1..n |-> h[i].overallMotion]), n),
               avgMicroVibration |->
                   Round(SumSeq([i \in 1..n |-> h[i].microVibration]), 10 * n),
               avgMacroMotion |-> Round(SumSeq([i \in 1..n |-> h[i].macroMotion]), 10 * n),
               peakTailWag |-> CHOOSE m \in {h[i].tailWagScore : i \in 1..n} :
                                   \A i \in 1..n : h[i].tailWagScore <= m,
               avgTension |-> Round(SumSeq([i \in 1..n |-> h[i].tensionScore]), n),
               dominantBodyState |->
                   SortDesc(Tally([i \in 1..n |-> h[i].bodyState]))[1].key,
               totalFrames |-> n ]

vars == <<app, loop, barkEngine, emotionEngine, visionAnalyzer, fed, watch>>

\* what the properties observe of a run, besides the engines themselves
Watch0 ==
    [ rawPostures |-> <<>>,    \* the last 5 postures the aspect ratio indicated
      held |-> FALSE,          \* the last frame's indicated posture was overridden
      lastRaw |-> Null,        \* the last raw detector box
      subFloor |-> TRUE,       \* every raw centre displacement so far was below the floor
      drift |-> 0,             \* the raw centre's horizontal travel so far
      clicks |-> 0,            \* clicks so far
      nextId |-> 1,            \* the id of the next startScan() call
      stops |-> 0,             \* runs of completeScan() so far
      analyzeCalls |-> 0,      \* calls of ScanReportAgent.analyze() so far
      lateFeed |-> FALSE,      \* an engine was fed by a frame begun before a completeScan()
      missRun |-> 0,           \* frames in a row in which the detector saw no dog
      staleFed |-> FALSE,      \* the last frame fed the remembered box to the emotion engine
      openBarkAtStop |-> FALSE,\* a bark was open at the last completeScan()
      closedTotal |-> 0,       \* barks there would be had that bark been finalized
      sinceClear |-> -1,       \* frames since the last clearAll() of both engines
      dropped |-> 0,           \* frames the emotion engine held at that clearAll()
      lastBox |-> Null,        \* the box and the audio of the last frame, and
      lastAudio |-> Null,      \*   what the two engines returned for it
      result |-> Null,
      barkRun |-> Null,        \* the run of frames classified bark that opened an event
      assessed |-> Null,       \* what _assessEmotion() returned, and for which audio
      agent |-> Null,          \* the heap before and after analyze(), and its result
      session |-> Null,        \* the reports asked for at the end of the session
      audioThrown |-> FALSE,   \* initAudioContext() threw in the last startScan()
      lastFrame |-> Null,      \* the last frame body of the scan: the bark engine before
                               \*   and after it, and what the emotion engine was given
      gap |-> Null,            \* the frames since the open bark event's last bark frame
      soundRun |-> 0 ]         \* frames above the gate in a row, up to the last frame

(***************************************************************************)
(* BarkAnalysisEngine driven frame by frame                                *)
(***************************************************************************)
InitBark ==
    /\ barkEngine \in BarkWarmUps
    /\ emotionEngine = EmoConstructor
    /\ app = AppLoaded
    /\ loop = {}
    /\ fed = 0
    /\ visionAnalyzer = VisionConstructor
    /\ watch = Watch0

\* one processAudioFrame() on the next analyser buffer
BarkFrame(a) ==
    /\ fed < MaxAudioFrames
    /\ barkEngine' = BarkProcessAudioFrame(barkEngine, a)
    /\ fed' = fed + 1
    /\ UNCHANGED <<app, loop, emotionEngine, watch, visionAnalyzer>>

NextBark == \E a \in AudioFrames : BarkFrame(a)

SpecBark == InitBark /\ [][NextBark]_vars

(***************************************************************************)
(* DogEmotionEngine driven frame by frame                                  *)
(***************************************************************************)
\* raw detector boxes around one centre: upright on all fours, sitting tall,
\* lying wide
BoxStand == [x |-> 10000, y |-> 10000, width |-> 10200, height |-> 10000]
BoxSit   == [x |-> 12600, y |-> 5000,  width |-> 5000,  height |-> 20000]
BoxDown  == [x |-> 5100,  y |-> 11000, width |-> 20000, height |-> 8000]
Shapes == {BoxStand, BoxSit, BoxDown}

\* frame-to-frame displacements of the raw box, in hundredths of a pixel:
\* three below the 6 px floor and one above it
Steps == { <<0, 0>>, <<500, 0>>, <<400, 400>>, <<800, 0>> }

\* frames fed to an engine after its warm-up
MaxEmoFrames == 6
\* frames of the standing box in the warmed-up engines
WarmFrames == 5

RECURSIVE EmoFeed(_, _, _)
\* n frames of the raw box in a row, without audio
EmoFeed(e, box, n) ==
    IF n = 0 THEN e
    ELSE IF n = 1 THEN EmoProcessFrame(e, Some([box |-> box]), Null).engine
    ELSE LET half == EmoFeed(e, box, n \div 2)
         IN  IF Len(half.frameHistory) > 0 THEN EmoFeed(half, box, n - (n \div 2)) ELSE half

EmoWarmUps == { EmoConstructor, EmoFeed(EmoConstructor, BoxStand, WarmFrames) }

InitEmo ==
    /\ emotionEngine \in EmoWarmUps
    /\ barkEngine = BarkConstructor
    /\ app = AppLoaded
    /\ loop = {}
    /\ fed = 0
    /\ visionAnalyzer = VisionConstructor
    /\ watch = [ Watch0 EXCEPT
                   !.rawPostures = emotionEngine.postureHistory,
                   !.lastRaw = IF Len(emotionEngine.frameHistory) > 0
                               THEN Some(BoxStand) ELSE Null ]

\* the raw centre displacement from box a to box b is below the noise floor
BelowFloor(a, b) ==
    LET dx == (2 * b.x + b.width) - (2 * a.x + a.width)
        dy == (2 * b.y + b.height) - (2 * a.y + a.height)
    IN  dx * dx + dy * dy < (MOVEMENT_NOISE_FLOOR * CPX) * (MOVEMENT_NOISE_FLOOR * CPX)

\* one emotionEngine.processFrame() on the raw box, without audio
EmoFrame(box) ==
    /\ fed < MaxEmoFrames
    /\ emotionEngine' = EmoProcessFrame(emotionEngine, Some([box |-> box]), Null).engine
    /\ LET classified == Len(emotionEngine'.frameHistory) >= 5
           raw == EmoRawPosture(EmoPushFrame(emotionEngine, box))
           last == watch.lastRaw
       IN  watch' = [ watch EXCEPT
                 !.rawPostures = IF classified THEN PushCap(@, raw, 5) ELSE @,
                 !.held = classified /\ raw # emotionEngine'.currentPosture,
                 !.lastRaw = Some(box),
                 !.subFloor = @ /\ (IsNull(last) \/ BelowFloor(Val(last), box)),
                 !.drift = IF IsNull(last) THEN 0 ELSE @ + (box.x - Val(last).x) ]
    /\ fed' = fed + 1
    /\ UNCHANGED <<app, loop, barkEngine, visionAnalyzer>>

\* the detector reports the dog in one of the three shapes
ShapeFrame == \E box \in Shapes : EmoFrame(box)

\* the detector reports the box of the last frame, displaced by one step
StepFrame ==
    \E d \in Steps :
        LET last == IF IsNull(watch.lastRaw) THEN BoxStand ELSE Val(watch.lastRaw)
        IN  EmoFrame([last EXCEPT !.x = @ + d[1], !.y = @ + d[2]])

NextPosture == ShapeFrame

SpecPosture == InitEmo /\ [][NextPosture]_vars

NextMove == StepFrame

SpecMove == InitEmo /\ [][NextMove]_vars

(***************************************************************************)
(* The page: clicks, camera promises, animation frames, detector results   *)
(***************************************************************************)
\* an asynchronous activity in flight: a startScan() awaiting the camera
\* (kind "start", at "getUserMedia" or "play") or a processFrame()
\* invocation (kind "frame") scheduled with requestAnimationFrame (at
\* "raf") or awaiting cocoModel.detect() (at "detect"); session is the
\* number of completeScan() runs before the frame invocation began
Activity(id, kind, at, session) == [id |-> id, kind |-> kind, at |-> at, session |-> session]

Frames == {t \in loop : t.kind = "frame"}

State == [app |-> app, bark |-> barkEngine, emo |-> emotionEngine]

\* the detector's outputs: nothing, a dog
DogBox == [class |-> "dog", score |-> 80, bbox |-> BoxStand]
NoPrediction == <<>>
SeesDog == <<DogBox>>

\* clicks, frames and audio frames in a run
MaxClicks == 3
MaxFrames == 3

\* the page and the engines become those of s = [app, bark, emo]
Becomes(s) ==
    /\ app' = s.app
    /\ barkEngine' = s.bark
    /\ emotionEngine' = s.emo

\* the page and the engines are those of s
Is(s) ==
    /\ app = s.app
    /\ barkEngine = s.bark
    /\ emotionEngine = s.emo

\* completeScan() and what the properties record of it
CompleteScan(w) ==
    /\ Becomes(AppCompleteScan(State))
    /\ watch' = [ w EXCEPT
          !.stops = @ + 1,
          !.openBarkAtStop = ~IsNull(barkEngine.currentBark),
          !.closedTotal = Len(BarkFinalize(barkEngine).barkHistory) ]

\* click on Start: startScan() up to the await in startCamera()
ClickStart ==
    /\ ~app.btnStartDisabled
    /\ watch.clicks < MaxClicks
    /\ app' = AppStartCamera(app)
    /\ loop' = loop \cup {Activity(watch.nextId, "start", "getUserMedia", 0)}
    /\ watch' = [watch EXCEPT !.clicks = @ + 1, !.nextId = @ + 1]
    /\ UNCHANGED <<barkEngine, emotionEngine, fed, visionAnalyzer>>

\* click on New Scan in the results panel: the panel is hidden and
\* startScan() runs up to the await in startCamera()
ClickNewScan ==
    /\ app.resultsActive
    /\ watch.clicks < MaxClicks
    /\ app' = AppStartCamera([app EXCEPT !.resultsActive = FALSE,
                                         !.modeSelectorShown = TRUE])
    /\ loop' = loop \cup {Activity(watch.nextId, "start", "getUserMedia", 0)}
    /\ watch' = [watch EXCEPT !.clicks = @ + 1, !.nextId = @ + 1]
    /\ UNCHANGED <<barkEngine, emotionEngine, fed, visionAnalyzer>>

\* click on a scan mode button
SelectMode ==
    /\ app.modeSelectorShown
    /\ watch.clicks < MaxClicks
    /\ \E m \in {"continuous", "15"} :
          /\ m # app.scanMode
          /\ app' = [app EXCEPT !.scanMode = m]
    /\ watch' = [watch EXCEPT !.clicks = @ + 1]
    /\ UNCHANGED <<loop, barkEngine, emotionEngine, fed, visionAnalyzer>>

\* click on Stop: stopScan()
ClickStop ==
    /\ ~app.btnStopDisabled
    /\ watch.clicks < MaxClicks
    /\ app.running
    /\ CompleteScan([watch EXCEPT !.clicks = @ + 1])
    /\ UNCHANGED <<loop, fed, visionAnalyzer>>

\* getUserMedia settles in a startCamera(): with a stream that has an audio
\* track, with a video-only stream, or with every attempt rejected
GotUserMedia ==
    \E t \in loop : \E got \in {Some([audio |-> TRUE]), Some([audio |-> FALSE]), Null} :
        /\ t.kind = "start" /\ t.at = "getUserMedia"
        /\ app' = AppGotUserMedia(app, got)
        /\ loop' = IF IsNull(app'.stream)
                   THEN loop \ {t}
                   ELSE (loop \ {t}) \cup {[t EXCEPT !.at = "play"]}
        /\ UNCHANGED <<barkEngine, emotionEngine, fed, watch, visionAnalyzer>>

\* video.play() is rejected twice in a startCamera(): startScan() returns
PlayFailed ==
    \E t \in loop :
        /\ t.kind = "start" /\ t.at = "play"
        /\ loop' = loop \ {t}
        /\ UNCHANGED <<app, barkEngine, emotionEngine, fed, watch, visionAnalyzer>>

\* video.play() resolves in a startCamera(): startScan() runs to its end,
\* including its call of processFrame() up to the first await there
Playing(maxFrames) ==
    \E t \in loop : \E audioOk \in BOOLEAN : \E ready \in BOOLEAN :
        /\ t.kind = "start" /\ t.at = "play"
        /\ fed < maxFrames
        /\ Becomes([AppStartScan(State, audioOk) EXCEPT !.app = AppFrameBegin(@)])
        /\ loop' = (loop \ {t}) \cup
                   {Activity(t.id, "frame", IF ready THEN "detect" ELSE "raf", watch.stops)}
        /\ fed' = fed + 1
        /\ watch' = [ watch EXCEPT
              !.missRun = 0, !.staleFed = FALSE, !.lastFrame = Null,
              !.audioThrown = /\ app.micAvailable /\ ~IsNull(app.stream)
                              /\ BarkInitAudioContext(BarkClearAll(barkEngine), audioOk)[2] ]
        /\ UNCHANGED visionAnalyzer

\* an animation frame callback finds the scan stopped: processFrame() returns
RafStopped ==
    \E t \in loop :
        /\ t.kind = "frame" /\ t.at = "raf"
        /\ ~app.running
        /\ loop' = loop \ {t}
        /\ UNCHANGED <<app, barkEngine, emotionEngine, fed, watch, visionAnalyzer>>

\* an animation frame callback finds the time of a timed scan used up:
\* processFrame() calls completeScan() and returns
RafTimeUp ==
    \E t \in loop :
        /\ t.kind = "frame" /\ t.at = "raf"
        /\ app.running
        /\ app.scanDurationLimit > 0
        /\ CompleteScan(watch)
        /\ loop' = loop \ {t}
        /\ UNCHANGED <<fed, visionAnalyzer>>

\* an animation frame callback runs processFrame() up to its first await:
\* the video has no frame yet and the callback is scheduled again, or
\* cocoModel.detect() is awaited
RafFrame(maxFrames) ==
    \E t \in loop : \E ready \in BOOLEAN :
        /\ t.kind = "frame" /\ t.at = "raf"
        /\ app.running
        /\ fed < maxFrames
        /\ app' = AppFrameBegin(app)
        /\ loop' = (loop \ {t}) \cup
                   {Activity(t.id, "frame", IF ready THEN "detect" ELSE "raf", watch.stops)}
        /\ fed' = fed + 1
        /\ UNCHANGED <<barkEngine, emotionEngine, watch, visionAnalyzer>>

\* the frame body of the invocation t has run with the result body; missed
\* tells that the detector saw no dog
DetectedAs(t, body, missed) ==
    /\ Becomes(body)
    /\ watch' = [ watch EXCEPT
          !.lateFeed = @ \/ ((body.fedEmotion \/ body.fedBark) /\ t.session < watch.stops),
          !.missRun = IF missed THEN @ + 1 ELSE 0,
          !.staleFed = body.stale,
          !.lastFrame = Some([ barkBefore |-> barkEngine, barkAfter |-> body.bark,
                               dogSeen |-> ~missed, fedEmotion |-> body.fedEmotion,
                               barkAssess |-> body.barkAssess ]) ]

\* cocoModel.detect() resolves in a processFrame() invocation, which runs
\* to its end
Detected(predictionSet, audioSet) ==
    \E t \in loop : \E predictions \in predictionSet : \E audio \in audioSet :
        /\ t.kind = "frame" /\ t.at = "detect"
        /\ DetectedAs(t, AppFrameBody(State, predictions, audio),
                      Len(AppDogs(predictions)) = 0)
        /\ loop' = IF app.running
                   THEN (loop \ {t}) \cup {[t EXCEPT !.at = "raf"]}
                   ELSE loop \ {t}
        /\ UNCHANGED <<fed, visionAnalyzer>>

InitApp ==
    /\ app = AppLoaded
    /\ loop = {}
    /\ barkEngine = BarkConstructor
    /\ emotionEngine = EmoConstructor
    /\ fed = 0
    /\ visionAnalyzer = VisionConstructor
    /\ watch = Watch0

NextApp ==
    \/ ClickStart
    \/ ClickNewScan
    \/ SelectMode
    \/ ClickStop
    \/ GotUserMedia
    \/ PlayFailed
    \/ Playing(MaxFrames)
    \/ RafStopped
    \/ RafTimeUp
    \/ RafFrame(MaxFrames)
    \/ Detected({NoPrediction, SeesDog}, {AudioQuiet})

SpecApp == InitApp /\ [][NextApp]_vars

(***************************************************************************)
(* A scan without microphone in which the detector loses the dog           *)
(***************************************************************************)
\* frames in a run: enough for the dog to be lost for more than
\* DOG_PERSISTENCE_FRAMES frames
MaxTrackFrames == 18

\* startScan() has run to the await of cocoModel.detect() in its first frame
InitTrack ==
    /\ Is([AppSessionStarted(FALSE) EXCEPT !.app = AppFrameBegin(@)])
    /\ loop = {Activity(1, "frame", "detect", 0)}
    /\ fed = 1
    /\ visionAnalyzer = VisionConstructor
    /\ watch = [Watch0 EXCEPT !.nextId = 2]

NextTrack ==
    \/ RafFrame(MaxTrackFrames)
    \/ Detected({NoPrediction, SeesDog}, {AudioQuiet})
    \/ ClickStop
    \/ RafStopped

SpecTrack == InitTrack /\ [][NextTrack]_vars

(***************************************************************************)
(* A scan with microphone that is stopped while the dog may be barking     *)
(***************************************************************************)
\* frames in a run after the baseline
MaxStopFrames == 4

\* the scan has run for the BASELINE_FRAMES frames of a steady room, the
\* dog not yet in view
InitStop ==
    /\ Is(AppRun(AppSessionStarted(TRUE), NoPrediction, [AudioQuiet EXCEPT !.rms = 10],
                 BASELINE_FRAMES))
    /\ loop = {Activity(1, "frame", "raf", 0)}
    /\ fed = 0
    /\ visionAnalyzer = VisionConstructor
    /\ watch = [Watch0 EXCEPT !.nextId = 2]

NextStop ==
    \/ RafFrame(MaxStopFrames)
    \/ Detected({NoPrediction, SeesDog}, {AudioQuiet, AudioBark})
    \/ ClickStop
    \/ RafStopped

SpecStop == InitStop /\ [][NextStop]_vars

(***************************************************************************)
(* Both engines driven frame by frame, and cleared as startScan() does     *)
(***************************************************************************)
\* frames and clearAll() calls in a run
MaxResetSteps == 4

InitReset ==
    /\ emotionEngine \in EmoWarmUps
    /\ barkEngine \in BarkWarmUps
    /\ app = AppLoaded
    /\ loop = {}
    /\ fed = 0
    /\ visionAnalyzer = VisionConstructor
    /\ watch = Watch0

\* what processFrame() of js/app.js gets from the two engines for a frame:
\* the quickAssess() of the bark engine b after the audio frame, and the
\* assessment of the emotion engine e given that
BothFed(e, b, box) ==
    [ bark |-> b,
      out |-> EmoProcessFrame(e, Some([box |-> box]), Some(BarkQuickAssess(b))) ]

BothProcess(e, b, box, audio) == BothFed(e, BarkProcessAudioFrame(b, audio), box)

BothFrameAs(next, box, audio) ==
    /\ barkEngine' = next.bark
    /\ emotionEngine' = next.out.engine
    /\ watch' = [ watch EXCEPT
          !.sinceClear = IF @ >= 0 THEN @ + 1 ELSE @,
          !.lastBox = Some(box),
          !.lastAudio = Some(audio),
          !.result = Some([ emotion |-> next.out.emotion,
                            bark |-> BarkQuickAssess(next.bark) ]) ]

\* one frame: the audio to the bark engine, the box to the emotion engine
BothFrame ==
    \E box \in Shapes : \E audio \in {AudioQuiet, AudioBark} :
        /\ fed < MaxResetSteps
        /\ BothFrameAs(BothProcess(emotionEngine, barkEngine, box, audio), box, audio)
        /\ fed' = fed + 1
        /\ UNCHANGED <<app, loop, visionAnalyzer>>

\* emotionEngine.clearAll() and barkEngine.clearAll()
BothClear ==
    /\ fed < MaxResetSteps
    /\ emotionEngine' = EmoClearAll(emotionEngine)
    /\ barkEngine' = BarkClearAll(barkEngine)
    /\ watch' = [ watch EXCEPT !.sinceClear = 0,
                               !.dropped = Len(emotionEngine.frameHistory),
                               !.lastBox = Null, !.lastAudio = Null, !.result = Null ]
    /\ fed' = fed + 1
    /\ UNCHANGED <<app, loop, visionAnalyzer>>

NextReset == BothFrame \/ BothClear

SpecReset == InitReset /\ [][NextReset]_vars

(***************************************************************************)
(* Properties                                                              *)
(***************************************************************************)
\* C1: once the detector has reported no dog for more than
\* DOG_PERSISTENCE_FRAMES frames in a row, the frame loop no longer feeds
\* the remembered box to the emotion engine.
C1_PersistenceExpires == watch.missRun > DOG_PERSISTENCE_FRAMES => ~watch.staleFed

\* C2: a frame invocation that began before a completeScan() feeds neither
\* the emotion engine nor the bark engine afterwards, also when it was
\* awaiting the detector at the time.
C2_NoFeedAfterStop == ~watch.lateFeed

\* C3: at most one processFrame() invocation is awaiting the detector or
\* scheduled as an animation frame callback.
C3_OneFrameLoop == Cardinality(Frames) <= 1

\* C4: a bark that is open when the scan stops is finalized before the bark
\* report is built, so the report's barks.total counts it.
C4_OpenBarkCounted ==
    (~IsNull(app.rendered) /\ watch.openBarkAtStop)
        => Val(app.rendered).bark.barks.total = watch.closedTotal

\* C5: ScanReportAgent.analyze() has been called once for every completed
\* scan.
C5_AnalyzeOncePerStop == watch.analyzeCalls = watch.stops

\* a new engine whose audio graph is connected
BarkFresh == BarkInitAudioContext(BarkConstructor, TRUE)[1]

\* what new engines return for their first frame
FreshResult(box, audio) ==
    LET next == BothProcess(EmoConstructor, BarkFresh, box, audio)
    IN  [emotion |-> next.out.emotion, bark |-> BarkQuickAssess(next.bark)]

\* C6: right after clearAll() each engine is in the state of a new engine
\* (the audio graph of the bark engine aside), and the first frame after it
\* returns what new engines return for that frame.
C6_ClearAllIsFresh ==
    /\ watch.sinceClear = 0 => (emotionEngine = EmoConstructor /\ barkEngine = BarkFresh)
    /\ watch.sinceClear = 1 =>
          watch.result = Some(FreshResult(Val(watch.lastBox), Val(watch.lastAudio)))

\* engines that held frames, a posture and an established baseline were
\* cleared and have processed one frame since
C6_Witness ==
    /\ watch.sinceClear = 1
    /\ watch.dropped >= 6
    /\ ~IsNull(watch.result)

AboveGate(b, rms) ==
    /\ rms > VAD_THRESHOLD
    /\ b.baselineEstablished => GtTimes(rms, 7, 2, Val(b.baselineRMS))

DogVocalizations == {"bark", "growl", "whine", "howl", "yelp"}

LastVocal == barkEngine.vocalizationHistory[Len(barkEngine.vocalizationHistory)]

\* C10: an audio frame whose RMS is not above max(0.025, 3.5 x baselineRMS)
\* is recorded as inactive with the type silent, never with the type bark,
\* growl, whine, howl or yelp.
C10_GatedFrameIsNotVocal ==
    (fed > 0 /\ ~AboveGate(barkEngine, LastVocal.rms))
        => /\ ~LastVocal.isActive
           /\ LastVocal.type = "silent"
           /\ LastVocal.type \notin DogVocalizations

\* a frame of the emotion engine has just been processed
FrameStep == Len(emotionEngine'.frameHistory) = Len(emotionEngine.frameHistory) + 1

CountOf(s, x) == Cardinality({i \in 1..Len(s) : s[i] = x})

\* C7: currentPosture changes from a posture P to a different posture Q on a
\* frame only if Q is the indicated posture of at least 3 of the 5 most
\* recent classifications (that frame's included).
C7_ChangeNeedsMajority ==
    [][ ( /\ FrameStep
          /\ emotionEngine.currentPosture # "unknown"
          /\ emotionEngine'.currentPosture # emotionEngine.currentPosture )
        => CountOf(watch'.rawPostures, emotionEngine'.currentPosture) >= 3 ]_vars

AllStill(e) ==
    \A i \in 1..Len(e.movementHistory) :
        e.movementHistory[i].speed = 0 /\ e.movementHistory[i].direction = "still"

\* C9: as long as every frame-to-frame displacement of the raw box centre is
\* below the 6 px noise floor, every Movement Sample has speed 0 and
\* direction 'still', however far the box has drifted.
C9_SubFloorIsStill == watch.subFloor => AllStill(emotionEngine)

\* the box has drifted 25 px in steps below the floor
C9_Witness ==
    /\ watch.subFloor
    /\ watch.drift >= 25 * PX
    /\ Len(emotionEngine.movementHistory) >= 6

\* C11: as long as the baseline is not established (the first 90 frames of a
\* session), no frame is classified bark, growl, whine, howl or yelp and no
\* bark event is open.
C11_NoVocalBeforeBaseline ==
    (fed > 0 /\ ~barkEngine.baselineEstablished)
        => /\ LastVocal.type \notin DogVocalizations
           /\ IsNull(barkEngine.currentBark)

(***************************************************************************)
(* BarkAnalysisEngine with an established baseline, driven through barks   *)
(***************************************************************************)
\* frames fed to the engine after the first loud frame
MaxEventFrames == 8

EventFrames == {AudioQuiet, AudioBark, AudioLoud, AudioNoise}

\* the engine after 90 frames of a steady room and the first frame of a bark
\* (which has no onset in the history yet and is classified ambient)
InitEvent ==
    /\ barkEngine = BarkProcessAudioFrame(
                        BarkFeed(BarkStarted, [AudioQuiet EXCEPT !.rms = 10], BASELINE_FRAMES),
                        AudioBark)
    /\ emotionEngine = EmoConstructor
    /\ app = AppLoaded
    /\ loop = {}
    /\ fed = 0
    /\ visionAnalyzer = VisionConstructor
    /\ watch = Watch0

\* the run of bark frames after the frame that took the engine from b to next
BarkRunAfter(run, b, next) ==
    LET v == next.vocalizationHistory[Len(next.vocalizationHistory)] IN
    IF v.isActive /\ v.type = "bark"
    THEN IF ~IsNull(run) /\ Val(run).ambients = 0
         THEN Some([Val(run) EXCEPT !.len = @ + 1])
         ELSE IF IsNull(b.currentBark)
              THEN Some([ start |-> next.totalFrameCount, len |-> 1,
                          events |-> Len(b.barkHistory), ambients |-> 0 ])
              ELSE Null
    ELSE IF v.isActive /\ v.type = "ambient" /\ ~IsNull(run)
         THEN Some([Val(run) EXCEPT !.ambients = @ + 1])
         ELSE Null

\* the frames without a bark after the frame that took the engine to next:
\* n of them since the open event's last bark or yelp frame, of which loud were
\* above the voice-activity gate; over and overLoud are the same counts of the
\* gap that the last bark frame ended, and from is the event open before it
GapAfter(gap, next) ==
    LET v == next.vocalizationHistory[Len(next.vocalizationHistory)] IN
    IF v.isActive /\ v.type \in {"bark", "yelp"}
    THEN IF IsNull(next.currentBark) THEN Null
         ELSE Some([ n |-> 0, loud |-> 0,
                     start |-> Val(next.currentBark).startFrame,
                     events |-> Len(next.barkHistory),
                     over |-> IF IsNull(gap) THEN 0 ELSE Val(gap).n,
                     overLoud |-> IF IsNull(gap) THEN 0 ELSE Val(gap).loud,
                     from |-> IF IsNull(gap) THEN Val(next.currentBark).startFrame
                                             ELSE Val(gap).start ])
    ELSE IF ~IsNull(gap) /\ (~v.isActive \/ v.type \in {"silent", "ambient"})
         THEN Some([Val(gap) EXCEPT !.n = @ + 1,
                                    !.loud = @ + (IF v.isActive THEN 1 ELSE 0)])
         ELSE Null

EventFrameTo(next) ==
    /\ barkEngine' = next
    /\ watch' = [watch EXCEPT !.barkRun = BarkRunAfter(@, barkEngine, next),
                              !.gap = GapAfter(@, next)]

\* one processAudioFrame() on the next analyser buffer
EventFrame(a) ==
    /\ fed < MaxEventFrames
    /\ EventFrameTo(BarkProcessAudioFrame(barkEngine, a))
    /\ fed' = fed + 1
    /\ UNCHANGED <<app, loop, emotionEngine, visionAnalyzer>>

NextEvent == \E a \in EventFrames : EventFrame(a)

SpecEvent == InitEvent /\ [][NextEvent]_vars

\* C12: once a run of k frames classified bark, which opened a bark event,
\* has been followed by 3 frames classified ambient, the run has produced
\* exactly one finalized Bark Event, of duration k, and a further ambient
\* frame adds none.
C12_OneEventPerBark ==
    (~IsNull(watch.barkRun) /\ Val(watch.barkRun).ambients >= 3)
        => /\ Len(barkEngine.barkHistory) = Val(watch.barkRun).events + 1
           /\ IsNull(barkEngine.currentBark)
           /\ barkEngine.barkHistory[Len(barkEngine.barkHistory)].startFrame
                  = Val(watch.barkRun).start
           /\ barkEngine.barkHistory[Len(barkEngine.barkHistory)].duration
                  = Val(watch.barkRun).len

\* a bark of 5 frames has been followed by 3 ambient frames
C12_Witness ==
    /\ ~IsNull(watch.barkRun)
    /\ Val(watch.barkRun).len = 5
    /\ Val(watch.barkRun).ambients = 3
    /\ Len(barkEngine.barkHistory) = 1

(***************************************************************************)
(* _assessEmotion() on engines in every combination of pattern counters    *)
(***************************************************************************)
\* the pattern counters the scores depend on, besides stillness
ScoredPatterns ==
    { "pacing", "spinning", "bouncing", "approaching", "retreating", "headTilts",
      "playBows", "jumping", "restlessness", "tailWagLikely" }

\* an engine after still frames, and the same engine after one more frame
\* in which the dog moved
AssessBases ==
    LET still == EmoFeed(EmoConstructor, BoxStand, WarmFrames)
    IN  { still,
          EmoProcessFrame(still, Some([box |-> [BoxStand EXCEPT !.x = @ + 3000]]), Null).engine }

\* an emotion history of 31 frames with six emotions, the last one stressed
FlickerHistory ==
    [ i \in 1..31 |->
        [ time |-> i,
          emotion |-> << "happy", "alert", "curious", "anxious", "calm", "stressed" >>[1 + ((i + 4) % 6)],
          confidence |-> 50, intensity |-> 0 ] ]

\* what the app passes as barkData: nothing, the assessment of a silent
\* engine, the assessment of an engine during a bark
AssessAudio ==
    { Null,
      Some(BarkQuickAssess(BarkStarted)),
      Some(BarkQuickAssess(BarkFeed(
          BarkFeed(BarkStarted, [AudioQuiet EXCEPT !.rms = 10], BASELINE_FRAMES),
          AudioBark, 3))) }

InitAssess ==
    /\ \E base \in AssessBases, posture \in {"unknown", "stand", "sit", "down", "crouch"},
          stillness \in {12, 20}, high \in SUBSET ScoredPatterns, flicker \in BOOLEAN :
          emotionEngine =
              [ base EXCEPT
                  !.currentPosture = posture,
                  !.patterns = [ k \in DOMAIN EmoPatterns0 |->
                                   IF k = "stillness" THEN stillness
                                   ELSE IF k \in high THEN 6 ELSE 0 ],
                  !.emotionHistory = IF flicker THEN FlickerHistory ELSE @ ]
    /\ barkEngine = BarkConstructor
    /\ app = AppLoaded
    /\ loop = {}
    /\ fed = 0
    /\ visionAnalyzer = VisionConstructor
    /\ watch = Watch0

AssessedAs(emotion, barkData) ==
    watch' = [ watch EXCEPT
                 !.assessed = Some([ primary |-> emotion.primary, scores |-> emotion.scores,
                                     vocal |-> ~IsNull(barkData) /\ Val(barkData).isVocalizing ]) ]

\* one _assessEmotion(movement, barkData) on the engine
Assess(barkData) ==
    /\ fed = 0
    /\ AssessedAs(EmoAssessEmotion(emotionEngine,
                      emotionEngine.movementHistory[Len(emotionEngine.movementHistory)],
                      barkData), barkData)
    /\ fed' = 1
    /\ UNCHANGED <<app, loop, barkEngine, emotionEngine, visionAnalyzer>>

NextAssess == \E barkData \in AssessAudio : Assess(barkData)

SpecAssess == InitAssess /\ [][NextAssess]_vars

\* the average speed of the last 30 movement samples is 0
AvgSpeedZero(e) ==
    \A i \in 1..Len(e.movementHistory) :
        i > Len(e.movementHistory) - 30 => e.movementHistory[i].speed = 0

\* C13: an assessment made with stillness above 15, a 30-frame average speed
\* of 0 and no vocalization has the primary emotion calm, whatever the
\* posture and the other pattern counters are.
C13_StillDogIsCalm ==
    ( /\ ~IsNull(watch.assessed)
      /\ emotionEngine.patterns.stillness > 15
      /\ AvgSpeedZero(emotionEngine)
      /\ ~Val(watch.assessed).vocal )
        => Val(watch.assessed).primary = "calm"

\* a still, silent, crouching dog with play bows, bouncing, jumping and tail
\* wagging on its counters, whose scores before the overrides favour playful,
\* was assessed
C13_Witness ==
    /\ ~IsNull(watch.assessed)
    /\ ~Val(watch.assessed).vocal
    /\ emotionEngine.patterns.stillness > 15
    /\ AvgSpeedZero(emotionEngine)
    /\ emotionEngine.currentPosture = "crouch"
    /\ emotionEngine.patterns.playBows > 0
    /\ emotionEngine.patterns.bouncing > 2
    /\ emotionEngine.patterns.jumping > 1
    /\ emotionEngine.patterns.tailWagLikely > 3
    /\ Val(watch.assessed).primary = "calm"

(***************************************************************************)
(* _classifyActions() on engines in combinations of posture and counters   *)
(***************************************************************************)
\* pattern counters whose actions are of the categories jumping, play,
\* attention, pattern, spatial and tail
ActionPatterns ==
    { "bouncing", "playBows", "headTilts", "spinning", "approaching", "tailWagLikely" }

InitClassify ==
    /\ \E base \in AssessBases, posture \in {"unknown", "stand", "sit", "down", "crouch"},
          stillness \in {0, 30, 60}, high \in SUBSET ActionPatterns :
          emotionEngine =
              [ base EXCEPT
                  !.currentPosture = posture,
                  !.patterns = [ k \in DOMAIN EmoPatterns0 |->
                                   IF k = "stillness" THEN stillness
                                   ELSE IF k \in high THEN 7 ELSE 0 ] ]
    /\ barkEngine = BarkConstructor
    /\ app = AppLoaded
    /\ loop = {}
    /\ fed = 0
    /\ visionAnalyzer = VisionConstructor
    /\ watch = Watch0

\* one _classifyActions(movement, barkData) on the engine
Classify(barkData) ==
    /\ fed = 0
    /\ emotionEngine' =
           EmoClassifyActions(emotionEngine,
               emotionEngine.movementHistory[Len(emotionEngine.movementHistory)], barkData)
    /\ fed' = 1
    /\ UNCHANGED <<app, loop, barkEngine, watch, visionAnalyzer>>

NextClassify == \E barkData \in AssessAudio : Classify(barkData)

SpecClassify == InitClassify /\ [][NextClassify]_vars

\* the place of a category in priorityOrder, or one past its end
Rank(category) ==
    IF \E k \in 1..Len(priorityOrder) : priorityOrder[k] = category
    THEN CHOOSE k \in 1..Len(priorityOrder) : priorityOrder[k] = category
    ELSE Len(priorityOrder) + 1

\* C14: after _classifyActions() the primary action is one of the frame's
\* active actions, and its category is the earliest category of
\* priorityOrder that any active action has; it is the one action recorded
\* for the frame in the action history.
C14_PrimaryByPriority ==
    Len(emotionEngine.actionHistory) > 0 =>
        LET acts == emotionEngine.activeActions IN
        /\ \E i \in 1..Len(acts) :
              /\ acts[i].action = emotionEngine.currentAction
              /\ Rank(acts[i].category) <= Len(priorityOrder)
              /\ \A j \in 1..Len(acts) : Rank(acts[i].category) <= Rank(acts[j].category)
        /\ emotionEngine.actionHistory[Len(emotionEngine.actionHistory)].action
              = emotionEngine.currentAction

\* a barking dog with jumping, play and attention actions in the same frame:
\* the vocalization, pushed last but two, is the primary action
C14_Witness ==
    /\ Len(emotionEngine.actionHistory) > 0
    /\ emotionEngine.currentAction = "barking"
    /\ emotionEngine.activeActions[1].category = "locomotion"
    /\ \A c \in {"jumping", "play", "attention", "posture"} :
          \E i \in 1..Len(emotionEngine.activeActions) :
              emotionEngine.activeActions[i].category = c

(***************************************************************************)
(* ScanReportAgent (js/scan-report-agent.js) and the evidence chain of     *)
(* CanineScienceDB (js/canine-science-db.js)                               *)
(*                                                                         *)
(* The reports are objects on a heap: analyze() is handed references to    *)
(* them, and an assignment to a property goes to the object the reference  *)
(* names.  A reference is the path of the object on the heap.  Texts are   *)
(* left out: a verdict keeps its label, an evidence item its key.  Average *)
(* speeds are in tenths, the pixel motion in ten-thousandths.              *)
(***************************************************************************)
vocalTypeNames == << "bark", "growl", "whine", "howl", "yelp" >>

\* this.incompatibleActions[state] || []
incompatibleActions(state) ==
    CASE state = "sleeping" ->
           { "walking", "trotting", "running", "sprinting", "slow-movement", "jumping-up",
             "landing", "bouncing", "repeated-jumping", "hopping", "approaching",
             "retreating", "lunging", "backing-up", "following", "play-bow", "zoomies",
             "chase-play", "pouncing", "spinning", "pacing", "restless", "nesting",
             "head-tilting", "freeze", "startled", "moving-left", "moving-right",
             "moving-away", "moving-toward", "cowering", "begging", "sitting-down",
             "standing-up", "getting-up", "lowering-body", "tail-wagging",
             "tail-wagging-fast" }
      [] state = "resting" ->
           { "walking", "trotting", "running", "sprinting", "jumping-up", "landing",
             "bouncing", "repeated-jumping", "hopping", "lunging", "play-bow", "zoomies",
             "chase-play", "pouncing", "spinning", "pacing", "restless", "nesting",
             "moving-left", "moving-right", "begging", "sitting-down", "standing-up",
             "getting-up", "lowering-body" }
      [] state = "alert-watching" ->
           { "trotting", "running", "sprinting", "bouncing", "repeated-jumping", "zoomies",
             "chase-play", "pouncing", "spinning", "pacing", "play-bow" }
      [] state = "calm-standing" ->
           { "running", "sprinting", "zoomies", "chase-play", "bouncing",
             "repeated-jumping", "pouncing" }
      [] OTHER -> {}

\* hasBarks || vocalFrames > 10
AgentHasVocalization(barkReport) ==
    LET r == Val(barkReport)
        td == r.vocalizations.typeDistribution
        vocalFrames ==
            SumSeq([ i \in 1..Len(vocalTypeNames) |->
                       IF vocalTypeNames[i] \in DOMAIN td THEN td[vocalTypeNames[i]] ELSE 0 ])
    IN  ~IsNull(barkReport) /\ (r.barks.total > 0 \/ vocalFrames > 10)

\* emotionReport.patterns.stillness; undefined compares false
AgentStillness(emotionReport) ==
    IF "stillness" \in DOMAIN emotionReport.patterns
    THEN emotionReport.patterns.stillness ELSE 0

\* a verdict with a confidence of its own for every report
AgentUnsureVerdict(emotionReport, barkReport, visionSummary) ==
    [ state |-> IF emotionReport.posture.current = "down" THEN "sleeping" ELSE "resting",
      confidence |-> 50 + AgentStillness(emotionReport),
      label |-> "Resting" ]

\* a decision list that asks for resting before it asks for sleeping
AgentRestingFirst(emotionReport, barkReport, visionSummary) ==
    IF /\ emotionReport.posture.current = "down" /\ AgentStillness(emotionReport) > 10
       /\ emotionReport.movement.avgSpeed < 30 /\ ~AgentHasVocalization(barkReport)
    THEN [state |-> "resting", confidence |-> 90, label |-> "Resting"]
    ELSE [state |-> "active", confidence |-> 50, label |-> "Normal Activity"]

\* _determineBehaviorState(emotionReport, barkReport, visionSummary)
AgentDetermineBehaviorState(emotionReport, barkReport, visionSummary) ==
    LET posture == emotionReport.posture.current
        stillness == AgentStillness(emotionReport)
        avgSpeed == emotionReport.movement.avgSpeed
        hasVocalization == AgentHasVocalization(barkReport)
        pixelMotion == IF IsNull(visionSummary) THEN 0 ELSE Val(visionSummary).avgOverallMotion
        pixelBodyState == IF IsNull(visionSummary) THEN "unknown"
                          ELSE Val(visionSummary).dominantBodyState
        verdict(state, confidence, label) ==
            [state |-> state, confidence |-> confidence, label |-> label]
    IN
    IF /\ posture = "down" /\ stillness > 20 /\ avgSpeed < 15 /\ ~hasVocalization
       /\ (pixelBodyState \in {"very-still", "calm"} \/ pixelMotion < 100)
    THEN verdict("sleeping", 92, "Sleeping / Deep Rest")
    ELSE IF posture = "down" /\ stillness > 10 /\ avgSpeed < 30 /\ ~hasVocalization
    THEN verdict("resting", 90, "Resting")
    ELSE IF posture = "down" /\ hasVocalization
    THEN verdict("resting", 75, "Lying Down - Vocal")
    ELSE IF posture = "stand" /\ stillness > 10 /\ avgSpeed < 30 /\ ~hasVocalization
    THEN verdict("alert-watching", 85, "Alert & Watching")
    ELSE IF posture = "stand" /\ stillness > 5 /\ avgSpeed < 50 /\ ~hasVocalization
    THEN verdict("calm-standing", 75, "Calm & Standing")
    ELSE IF posture = "sit" /\ stillness > 5 /\ avgSpeed < 30
    THEN verdict("resting", 80, "Sitting Calmly")
    ELSE IF avgSpeed > 80 THEN verdict("active", 85, "Active & Moving")
    ELSE IF avgSpeed > 30 THEN verdict("active", 70, "Moderately Active")
    ELSE verdict("active", 50, "Normal Activity")

\* stateActions[behaviorState.state] || 'observing'
stateActions(state) ==
    CASE state = "sleeping" -> "sleeping"
      [] state = "resting" -> "resting"
      [] state = "alert-watching" -> "guarding"
      [] state = "calm-standing" -> "standing"
      [] OTHER -> "observing"

\* the raw action summary passed on as it is
AgentKeepActions(actionSummary, behaviorState, totalFrames) ==
    [ primary |-> Val(actionSummary).primary,
      topActions |-> Val(actionSummary).topActions,
      totalUniqueActions |-> Len(Val(actionSummary).topActions) ]

\* _filterActions with the earlier 5% threshold
AgentFilterActionsAtFive(actionSummary, behaviorState, totalFrames) ==
    IF IsNull(actionSummary)
    THEN [primary |-> "observing", topActions |-> <<>>, totalUniqueActions |-> 0]
    ELSE
    LET summary == Val(actionSummary)
        blocked == incompatibleActions(behaviorState.state)
        frames == IF totalFrames = 0 THEN 1 ELSE totalFrames
        filtered == SelectSeq(summary.topActions, LAMBDA a :
                        /\ a.key \notin {"observing", "stationary"}
                        /\ a.key \notin blocked
                        /\ Round(100 * a.count, frames) >= 5)
        primary == IF summary.primary = "" THEN "observing" ELSE summary.primary
    IN  [ primary |-> IF primary \in blocked
                      THEN IF Len(filtered) > 0 THEN filtered[1].key
                           ELSE stateActions(behaviorState.state)
                      ELSE primary,
          topActions |-> filtered,
          totalUniqueActions |-> Len(filtered) ]

\* _filterActions(actionSummary, behaviorState, totalFrames)
AgentFilterActions(actionSummary, behaviorState, totalFrames) ==
    IF IsNull(actionSummary)
    THEN [primary |-> "observing", topActions |-> <<>>, totalUniqueActions |-> 0]
    ELSE
    LET summary == Val(actionSummary)
        blocked == incompatibleActions(behaviorState.state)
        frames == IF totalFrames = 0 THEN 1 ELSE totalFrames
        filtered == SelectSeq(summary.topActions, LAMBDA a :
                        /\ a.key \notin {"observing", "stationary"}
                        /\ a.key \notin blocked
                        /\ Round(100 * a.count, frames) >= 8)
        primary == IF summary.primary = "" THEN "observing" ELSE summary.primary
    IN  [ primary |-> IF primary \in blocked
                      THEN IF Len(filtered) > 0 THEN filtered[1].key
                           ELSE stateActions(behaviorState.state)
                      ELSE primary,
          topActions |-> filtered,
          totalUniqueActions |-> Len(filtered) ]

\* emotionOverrides[state].valid, and whether the state has an override
validEmotions(state) ==
    CASE state = "sleeping" -> {"calm", "sad"}
      [] state = "resting" -> {"calm", "sad", "alert"}
      [] state = "alert-watching" -> {"alert", "calm", "curious"}
      [] OTHER -> {}

\* emotionOverrides[state].override
overrideEmotion(state) == IF state = "alert-watching" THEN "alert" ELSE "calm"

\* the raw dominant emotion passed on as it is
AgentKeepEmotion(emotionReport, behaviorState) ==
    [ emotion |-> emotionReport.dominantEmotion,
      wasOverridden |-> FALSE,
      originalEmotion |-> emotionReport.dominantEmotion,
      reason |-> Null,
      distribution |-> emotionReport.emotionDistribution ]

\* _validateEmotion(emotionReport, behaviorState)
AgentValidateEmotion(emotionReport, behaviorState) ==
    LET raw == IF emotionReport.dominantEmotion = "" THEN "unknown"
               ELSE emotionReport.dominantEmotion
        state == behaviorState.state
        overridden == /\ state \in {"sleeping", "resting", "alert-watching"}
                      /\ raw \notin validEmotions(state)
    IN  [ emotion |-> IF overridden THEN overrideEmotion(state) ELSE raw,
          wasOverridden |-> overridden,
          originalEmotion |-> raw,
          reason |-> IF overridden THEN Some(state) ELSE Null,
          distribution |-> emotionReport.emotionDistribution ]

\* the object a reference names
Deref(heap, ref) == IF Len(ref) = 1 THEN heap[ref[1]] ELSE heap[ref[1]][ref[2]]

\* object[field] = value
SetField(object, field, value) ==
    [ k \in DOMAIN object \cup {field} |-> IF k = field THEN value ELSE object[k] ]

\* ref.field = value
HeapWrite(heap, ref, field, value) ==
    IF Len(ref) = 1
    THEN [heap EXCEPT ![ref[1]] = SetField(@, field, value)]
    ELSE [heap EXCEPT ![ref[1]][ref[2]] = SetField(@, field, value)]

RECURSIVE HeapZero(_, _, _)
\* ref.f = 0 for the fields f in turn
HeapZero(heap, ref, fields) ==
    IF Len(fields) = 0 THEN heap
    ELSE HeapZero(HeapWrite(heap, ref, Head(fields), 0), ref, Tail(fields))

\* clean = patterns: no copy is made, clean names the patterns of the report
AgentAlias(heap, ref) == [heap |-> heap, ref |-> ref]

\* clean = { ...patterns }: a new object with the properties of patterns
AgentSpread(heap, ref) ==
    [heap |-> [heap EXCEPT !.cleanPatterns = Deref(heap, ref)], ref |-> <<"cleanPatterns">>]

\* the counters _filterPatterns() sets to 0
zeroedPatterns(state) ==
    IF state \in {"sleeping", "resting"}
    THEN << "pacing", "spinning", "bouncing", "jumping", "playBows", "restlessness",
            "headTilts" >>
    ELSE IF state \in {"alert-watching", "calm-standing"}
    THEN << "spinning", "bouncing", "jumping", "playBows" >>
    ELSE <<>>

\* _filterPatterns(patterns, behaviorState), patterns an object (maybe {})
AgentFilterPatterns(heap, patterns, behaviorState) ==
    LET clean == AgentSpread(heap, patterns)
    IN  [ heap |-> HeapZero(clean.heap, clean.ref, zeroedPatterns(behaviorState.state)),
          ref |-> clean.ref ]

impossibleWhenResting ==
    { "Tail wagging detected", "Body tension detected", "Micro-vibrations detected",
      "High body activity", "Active head movement", "High-speed movement detected",
      "Moderate movement", "Repetitive pacing detected", "Bouncing/jumping movement",
      "Spinning/circling detected", "Play bow detected!", "Jumping detected",
      "Restless behavior" }

impossibleWhenAlertStill ==
    { "Tail wagging detected", "High body activity", "High-speed movement detected",
      "Bouncing/jumping movement", "Spinning/circling detected", "Play bow detected!",
      "Jumping detected" }

\* _filterSignals(signals, behaviorState)
AgentFilterSignals(signals, behaviorState) ==
    IF behaviorState.state \in {"sleeping", "resting"}
    THEN SelectSeq(signals, LAMBDA s : s.signal \notin impossibleWhenResting)
    ELSE IF behaviorState.state \in {"alert-watching", "calm-standing"}
    THEN SelectSeq(signals, LAMBDA s : s.signal \notin impossibleWhenAlertStill)
    ELSE signals

stateDescriptions ==
    { "very-still", "calm", "slight-motion", "tense", "wagging", "vibrating", "active",
      "very-active" }

\* _buildVisionInsights(visionSummary, behaviorState): the types of the
\* insights, or null
AgentBuildVisionInsights(visionSummary, behaviorState) ==
    IF IsNull(visionSummary) \/ Val(visionSummary).totalFrames < 10 THEN Null
    ELSE LET v == Val(visionSummary)
             isResting == behaviorState.state \in {"sleeping", "resting"}
             insights ==    Item(v.dominantBodyState \in stateDescriptions, "body-state")
                         \o Item(~isResting /\ v.peakTailWag >= 5, "tail")
                         \o Item(~isResting /\ v.avgTension > 40, "tension")
         IN  IF Len(insights) > 0 THEN Some(insights) ELSE Null

\* CanineScienceDB.getEvidenceForState(state, measurements): the keys of the
\* evidence items of the chain
EvidenceForState(state, m) ==
    LET silent == ~m.hasVocalization
        posture ==
            IF m.posture = "down"
            THEN <<IF silent /\ m.stillness > 10 THEN "posture-down-still-silent"
                   ELSE "posture-down-still">>
            ELSE IF m.posture = "stand" /\ m.stillness > 10 /\ silent
            THEN <<"posture-stand-still-silent">>
            ELSE Item(m.posture = "crouch", "posture-crouch")
        movement ==
            IF m.stillness > 15 THEN <<"movement-still">>
            ELSE IF m.pacing > 3 THEN <<"movement-pacing">>
            ELSE IF m.bouncing > 2 THEN <<"movement-bouncy">>
            ELSE Item(m.avgSpeed > 120, "movement-high-speed")
        barkKey ==
            IF m.barkPitch < 300 /\ m.barkRate > 20 THEN "bark-low-pitch-fast"
            ELSE IF m.barkPitch > 600 THEN "bark-high-pitch-slow"
            ELSE IF m.barkType = "play" THEN "bark-play"
            ELSE "bark-detected"
        vocalization ==
            IF silent THEN Item(state \in {"sleeping", "resting"}, "silent")
            ELSE IF m.vocalType = "bark" THEN <<barkKey>>
            ELSE Item(m.vocalType \in {"growl", "whine", "howl"}, m.vocalType \o "-detected")
        signs ==    posture \o movement \o vocalization
                 \o Item(m.playBows > 0, "play-bow")
                 \o Item(m.hasTailWag, "tail-wag")
                 \o Item(m.hasTension, "body-tension")
                 \o Item(state = "sleeping", "sleep-pattern")
        calm == signs \o Item(state \in {"sleeping", "resting"} /\ Len(signs) >= 2,
                              "multi-modal-calm")
    IN  calm \o Item(state = "stressed" \/ (m.pacing > 3 /\ m.hasVocalization),
                     "stress-pattern")

\* patterns.f || 0
PatternOr0(patterns, f) == IF f \in DOMAIN patterns THEN patterns[f] ELSE 0

\* _buildEvidenceChain(behaviorState, emotionReport, barkReport, visionSummary)
\* of an agent with a science database; of equally frequent vocalization
\* types the first of vocalTypeNames is taken for the first one counted
AgentBuildEvidenceChain(behaviorState, emotionReport, barkReport, visionSummary) ==
    LET hasVocalization == AgentHasVocalization(barkReport)
        b == Val(barkReport)
        v == Val(visionSummary)
        dist == b.vocalizations.typeDistribution
        counted == SelectSeq(vocalTypeNames, LAMBDA k : k \in DOMAIN dist)
        top == CHOOSE i \in 1..Len(counted) :
                  /\ \A j \in 1..Len(counted) : dist[counted[j]] <= dist[counted[i]]
                  /\ \A j \in 1..(i - 1) : dist[counted[j]] < dist[counted[i]]
        vocalType == IF ~hasVocalization THEN "silent"
                     ELSE IF b.barks.total > 0 THEN "bark"
                     ELSE IF Len(counted) > 0 THEN counted[top] ELSE "silent"
        patterns == emotionReport.patterns
    IN  EvidenceForState(behaviorState.state,
          [ posture |-> emotionReport.posture.current,
            stillness |-> PatternOr0(patterns, "stillness"),
            avgSpeed |-> emotionReport.movement.avgSpeed,
            hasVocalization |-> hasVocalization,
            vocalType |-> vocalType,
            barkPitch |-> IF IsNull(barkReport) THEN 0 ELSE b.barks.avgFrequency,
            barkRate |-> IF IsNull(barkReport) THEN 0 ELSE b.barks.rate,
            barkType |-> IF IsNull(barkReport) THEN "unknown" ELSE b.barks.dominantType,
            hasTailWag |-> ~IsNull(visionSummary) /\ v.peakTailWag >= 5,
            hasTension |-> ~IsNull(visionSummary) /\ v.avgTension > 40,
            pacing |-> PatternOr0(patterns, "pacing"),
            bouncing |-> PatternOr0(patterns, "bouncing"),
            playBows |-> PatternOr0(patterns, "playBows"),
            restlessness |-> PatternOr0(patterns, "restlessness") ])

\* getScienceSummary(state): the summary of the state, or the general one
ScienceSummary(state) ==
    IF state \in { "sleeping", "resting", "alert-watching", "calm-standing", "active",
                   "stressed", "playful" }
    THEN state ELSE "general"

\* the references analyze() is called with
AgentArguments ==
    [ emotionReport |-> <<"emotionReport">>, barkReport |-> <<"barkReport">>,
      energyReport |-> <<"energyReport">>, visionSummary |-> <<"visionSummary">> ]

\* analyze(): steps 2 to 7 and the return, for the verdict of step 1 on the
\* heap
AgentReport(heap, scienceDB) ==
    LET emotionReport == heap.emotionReport
        behaviorState == heap.behaviorState
        clean == AgentFilterPatterns(heap, <<"emotionReport", "patterns">>, behaviorState)
        summarised == IF scienceDB
                      THEN HeapWrite(clean.heap, <<"behaviorState">>, "scienceSummary",
                                     ScienceSummary(behaviorState.state))
                      ELSE clean.heap
    IN  [ heap |-> summarised,
          out |->
            [ behaviorState |-> summarised.behaviorState,
              filteredActions |->
                  AgentFilterActions(Some(emotionReport.actionSummary), behaviorState,
                                     emotionReport.framesAnalyzed),
              validatedEmotion |-> AgentValidateEmotion(emotionReport, behaviorState),
              cleanPatterns |-> Deref(summarised, clean.ref),
              filteredSignals |-> AgentFilterSignals(emotionReport.detectedSignals,
                                                     behaviorState),
              visionInsights |-> AgentBuildVisionInsights(heap.visionSummary, behaviorState),
              evidenceChain |->
                  IF scienceDB
                  THEN AgentBuildEvidenceChain(behaviorState, emotionReport,
                                               heap.barkReport, heap.visionSummary)
                  ELSE <<>>,
              raw |-> AgentArguments ] ]

\* analyze(emotionReport, barkReport, energyReport, visionSummary) of an
\* agent with (scienceDB) or without a science database
AgentAnalyze(heap, scienceDB) ==
    AgentReport([heap EXCEPT !.behaviorState =
                    AgentDetermineBehaviorState(heap.emotionReport, heap.barkReport,
                                                heap.visionSummary)],
                scienceDB)

(***************************************************************************)
(* ScanReportAgent.analyze() on the reports of a session                   *)
(***************************************************************************)
\* the top actions of three sessions, with the primary action of each
AgentActionSummaries ==
    { [ primary |-> "trotting",
        topActions |-> << [key |-> "stationary", count |-> 50],
                          [key |-> "trotting", count |-> 40],
                          [key |-> "lying-down", count |-> 30],
                          [key |-> "tail-wagging-fast", count |-> 20],
                          [key |-> "jumping-up", count |-> 10],
                          [key |-> "resting", count |-> 5] >> ],
      [ primary |-> "tail-wagging",
        topActions |-> << [key |-> "tail-wagging", count |-> 60],
                          [key |-> "walking", count |-> 30] >> ],
      [ primary |-> "lying-down",
        topActions |-> << [key |-> "lying-down", count |-> 90] >> ] }

\* the pattern counters and signals of a quiet and of a lively last frame
AgentLastFrames ==
    { [ patterns |-> EmoPatterns0,
        detectedSignals |-> << [type |-> "movement", signal |-> "Very little movement"] >> ],
      [ patterns |-> [ EmoPatterns0 EXCEPT !.pacing = 4, !.bouncing = 3, !.playBows = 1,
                                           !.headTilts = 3, !.tailWagLikely = 4 ],
        detectedSignals |-> << [type |-> "movement", signal |-> "Very little movement"],
                               [type |-> "pattern", signal |-> "Repetitive pacing detected"],
                               [type |-> "pattern", signal |-> "Play bow detected!"],
                               [type |-> "pattern", signal |-> "Head tilting detected"],
                               [type |-> "pixel", signal |-> "Tail wagging detected"] >> ] }

\* barkEngine.fullAnalysis() of a silent session and of one with a bark, or
\* no bark report
AgentBarkReports ==
    { Null,
      Some(BarkFullAnalysis(BarkStarted)),
      Some(BarkFullAnalysis(BarkFeed(
          BarkFeed(BarkFeed(BarkStarted, [AudioQuiet EXCEPT !.rms = 10], BASELINE_FRAMES),
                   AudioBark, 3),
          AudioNoise, 1))) }

\* visionAnalyzer.getSummary() after 5 frames, of a still dog and of a
\* wagging one, or no summary
AgentVisionSummaries ==
    { Null,
      Some([ avgOverallMotion |-> 0, peakTailWag |-> 0, avgTension |-> 0,
             dominantBodyState |-> "unknown", totalFrames |-> 5 ]),
      Some([ avgOverallMotion |-> 20, peakTailWag |-> 0, avgTension |-> 3,
             dominantBodyState |-> "very-still", totalFrames |-> 60 ]),
      Some([ avgOverallMotion |-> 900, peakTailWag |-> 6, avgTension |-> 45,
             dominantBodyState |-> "wagging", totalFrames |-> 60 ]) }

\* emotionEngine.fullAnalysis() of a session of 100 frames
AgentEmotionReports ==
    LET base == EmoFullAnalysis(EmoFeed(EmoConstructor, BoxDown, 10)) IN
    { [ base EXCEPT !.framesAnalyzed = 100,
                    !.posture.current = posture,
                    !.movement.avgSpeed = avgSpeed,
                    !.dominantEmotion = emotion,
                    !.patterns = [last.patterns EXCEPT !.stillness = stillness],
                    !.detectedSignals = last.detectedSignals,
                    !.actionSummary.primary = actions.primary,
                    !.actionSummary.topActions = actions.topActions ] :
        posture \in {"down", "stand", "sit"}, stillness \in {8, 15, 25},
        avgSpeed \in {0, 20, 40, 90}, emotion \in {"calm", "sad", "excited"},
        last \in AgentLastFrames, actions \in AgentActionSummaries }

InitAgent ==
    /\ \E emotionReport \in AgentEmotionReports, barkReport \in AgentBarkReports,
          visionSummary \in AgentVisionSummaries :
          LET heap == [ emotionReport |-> emotionReport, barkReport |-> barkReport,
                        energyReport |-> [totalCycles |-> 3],
                        visionSummary |-> visionSummary,
                        behaviorState |-> Null, cleanPatterns |-> Null ]
          IN  watch = [Watch0 EXCEPT !.agent = Some([before |-> heap, heap |-> heap,
                                                     out |-> Null])]
    /\ emotionEngine = EmoConstructor
    /\ barkEngine = BarkConstructor
    /\ app = AppLoaded
    /\ loop = {}
    /\ fed = 0
    /\ visionAnalyzer = VisionConstructor

AnalyzedAs(done) ==
    watch' = [watch EXCEPT !.agent = Some([ before |-> Val(@).before, heap |-> done.heap,
                                            out |-> Some(done.out) ])]

\* one analyze() on the four reports
Analyze(scienceDB) ==
    /\ fed = 0
    /\ ~IsNull(watch.agent)
    /\ AnalyzedAs(AgentAnalyze(Val(watch.agent).heap, scienceDB))
    /\ fed' = 1
    /\ UNCHANGED <<app, loop, barkEngine, emotionEngine, visionAnalyzer>>

NextAgent == \E scienceDB \in BOOLEAN : Analyze(scienceDB)

SpecAgent == InitAgent /\ [][NextAgent]_vars

\* analyze() has returned
Analyzed == ~IsNull(watch.agent) /\ ~IsNull(Val(watch.agent).out)

\* what it returned, and the emotion report it was given
Coherent == Val(Val(watch.agent).out)

RawEmotionReport == Val(watch.agent).before.emotionReport

\* C15: no action on the verdict's denylist is among the filtered top
\* actions, and the filtered primary action is not on it: a raw primary
\* action on the denylist is replaced by the first surviving top action, or
\* by the fallback action of the verdict if none survives.
C15_NoDeniedAction ==
    Analyzed =>
        LET out == Coherent.filteredActions
            state == Coherent.behaviorState.state
            blocked == incompatibleActions(state)
        IN  /\ \A i \in 1..Len(out.topActions) : out.topActions[i].key \notin blocked
            /\ out.primary \notin blocked
            /\ RawEmotionReport.actionSummary.primary \in blocked =>
                  out.primary = IF Len(out.topActions) > 0 THEN out.topActions[1].key
                                ELSE stateActions(state)

\* a sleeping verdict for a session whose raw top actions hold trotting,
\* tail-wagging-fast and jumping-up and whose raw primary action is trotting
C15_Witness ==
    /\ Analyzed
    /\ Coherent.behaviorState.state = "sleeping"
    /\ RawEmotionReport.actionSummary.primary = "trotting"
    /\ \A a \in {"trotting", "tail-wagging-fast", "jumping-up"} :
          \E i \in 1..Len(RawEmotionReport.actionSummary.topActions) :
              RawEmotionReport.actionSummary.topActions[i].key = a
    /\ Coherent.filteredActions.primary = "lying-down"

\* C16 as claimed: with the verdict sleeping the validated emotion is calm,
\* whatever the raw dominant emotion was.
C16_SleepingIsCalm ==
    (Analyzed /\ Coherent.behaviorState.state = "sleeping")
        => Coherent.validatedEmotion.emotion = "calm"

\* C16 as the code has it: with the verdict sleeping the validated emotion
\* is the raw dominant emotion if that is calm or sad, and calm, marked as
\* overridden, otherwise.
C16_SleepingIsCalmOrSad ==
    (Analyzed /\ Coherent.behaviorState.state = "sleeping")
        => LET v == Coherent.validatedEmotion
               raw == RawEmotionReport.dominantEmotion
           IN  /\ v.emotion = IF raw = "sad" THEN "sad" ELSE "calm"
               /\ v.wasOverridden = (raw \notin {"calm", "sad"})
               /\ v.originalEmotion = raw

\* a sleeping verdict for a session whose dominant emotion was excited
C16_Witness ==
    /\ Analyzed
    /\ Coherent.behaviorState.state = "sleeping"
    /\ RawEmotionReport.dominantEmotion = "excited"
    /\ Coherent.validatedEmotion.emotion = "calm"
    /\ Coherent.validatedEmotion.wasOverridden

\* C17 as claimed: the state of the verdict fixes its confidence, 92 for
\* sleeping and 90 for resting.
C17_ConfidenceByState ==
    Analyzed =>
        /\ Coherent.behaviorState.state = "sleeping" => Coherent.behaviorState.confidence = 92
        /\ Coherent.behaviorState.state = "resting" => Coherent.behaviorState.confidence = 90

\* C17 as the code has it: a sleeping verdict has confidence 92; a resting
\* verdict has the confidence of its label, 90 for Resting, 75 for Lying
\* Down - Vocal and 80 for Sitting Calmly.
C17_ConfidenceByLabel ==
    Analyzed =>
        LET b == Coherent.behaviorState IN
        /\ b.state = "sleeping" => (b.confidence = 92 /\ b.label = "Sleeping / Deep Rest")
        /\ b.state = "resting" =>
              \/ b.label = "Resting" /\ b.confidence = 90
              \/ b.label = "Lying Down - Vocal" /\ b.confidence = 75
              \/ b.label = "Sitting Calmly" /\ b.confidence = 80

\* a sitting dog was given the verdict resting
C17_Witness ==
    /\ Analyzed
    /\ Coherent.behaviorState.state = "resting"
    /\ Coherent.behaviorState.label = "Sitting Calmly"
    /\ RawEmotionReport.posture.current = "sit"

\* C18: after analyze() the four reports on the heap are what they were
\* before the call, patterns, top actions and signals included, and the raw
\* field of the result holds the references analyze() was called with.
C18_InputsUnchanged ==
    Analyzed =>
        /\ \A r \in DOMAIN AgentArguments :
              Val(watch.agent).heap[r] = Val(watch.agent).before[r]
        /\ Coherent.raw = AgentArguments

\* a resting or sleeping verdict whose clean patterns and filtered signals
\* differ from the patterns and signals of the emotion report
C18_Witness ==
    /\ Analyzed
    /\ Coherent.behaviorState.state \in {"sleeping", "resting"}
    /\ Coherent.cleanPatterns.pacing = 0
    /\ RawEmotionReport.patterns.pacing > 3
    /\ Len(Coherent.filteredSignals) < Len(RawEmotionReport.detectedSignals)
    /\ Len(Coherent.filteredActions.topActions)
          < Len(RawEmotionReport.actionSummary.topActions)


(***************************************************************************)
(* A session of a walking dog with sounds, and its report                  *)
(***************************************************************************)
\* frames fed to the engine after the start of the session
MaxSessionFrames == 6
\* frames of the walking dog, without audio, in the session under way
SessionWarmFrames == 12
\* the walking dog moves this far to the right in every frame
WalkStep == 2500

\* the raw box of the walking dog in its n-th frame
WalkBox(n) == [BoxStand EXCEPT !.x = @ + n * WalkStep]

\* what quickAssess() returns while the dog makes a sound of the type
Sound(type) ==
    [ BarkQuickAssess(BarkStarted) EXCEPT
        !.isVocalizing = TRUE, !.currentType = type, !.intensity = 40,
        !.hasBaseline = TRUE, !.dominantFreq = 300 ]

\* the barkData of a frame: silence, a growl, a howl, a yelp
SessionSounds == { Null, Some(Sound("growl")), Some(Sound("howl")), Some(Sound("yelp")) }

RECURSIVE EmoWalk(_, _, _)
\* the frames from-th to to-th of the walking dog, without audio
EmoWalk(e, from, to) ==
    IF from > to THEN e
    ELSE LET next == EmoProcessFrame(e, Some([box |-> WalkBox(from)]), Null).engine
         IN  IF Len(next.frameHistory) > 0 THEN EmoWalk(next, from + 1, to) ELSE next

\* a session that starts, or one with its first frames seen
InitSession ==
    /\ \E n \in {0, SessionWarmFrames} : emotionEngine = EmoWalk(EmoConstructor, 1, n)
    /\ fed = 0
    /\ visionAnalyzer = VisionConstructor
    /\ barkEngine = BarkConstructor
    /\ app = AppLoaded
    /\ loop = {}
    /\ watch = Watch0

\* one emotionEngine.processFrame() on the next box of the walking dog and
\* the barkData
SessionFrame(barkData) ==
    /\ IsNull(watch.session)
    /\ fed < MaxSessionFrames
    /\ emotionEngine' =
           EmoProcessFrame(emotionEngine,
                           Some([box |-> WalkBox(Len(emotionEngine.frameHistory) + 1)]),
                           barkData).engine
    /\ fed' = fed + 1
    /\ UNCHANGED <<app, loop, barkEngine, watch, visionAnalyzer>>

\* emotionEngine.fullAnalysis() at the end of the session
SessionReport ==
    /\ IsNull(watch.session)
    /\ watch' = [watch EXCEPT !.session = Some([emotion |-> EmoFullAnalysis(emotionEngine)])]
    /\ UNCHANGED <<app, loop, barkEngine, emotionEngine, visionAnalyzer, fed>>

NextSession ==
    \/ \E barkData \in SessionSounds : SessionFrame(barkData)
    \/ SessionReport

SpecSession == InitSession /\ [][NextSession]_vars

\* the sum of the percentages of an emotionDistribution
PercentSum(distribution) == SumSeq([i \in 1..Len(distribution) |-> distribution[i].percent])

\* C19: for every session with at least 10 assessed frames the percentages
\* of the report's emotionDistribution sum to a value from 99 to 101
C19_PercentagesSumTo100 ==
    (~IsNull(watch.session) /\ Len(emotionEngine.emotionHistory) >= 10)
        => PercentSum(Val(watch.session).emotion.emotionDistribution) \in 99..101


(***************************************************************************)
(* The three report generators after a session of any length               *)
(***************************************************************************)
\* frames fed to the three engines after the start of the session
MaxReportFrames == 5
\* quiet frames of the still scene in the session under way
ReportWarmFrames == 8

\* what analyze() measures of the pixels of a frame: a dog at rest, a dog
\* that wags its tail
PixelsStill == [ avgDiff |-> 10, microVibRatio |-> 100, macroMotionRatio |-> 0,
                 tailWagScore |-> 0, tensionScore |-> 5 ]
PixelsWag == [ avgDiff |-> 300, microVibRatio |-> 2000, macroMotionRatio |-> 400,
               tailWagScore |-> 4, tensionScore |-> 20 ]
Measurements == {PixelsStill, PixelsWag}

RECURSIVE VisionFeed(_, _, _)
\* n frames with the same measurement in a row
VisionFeed(v, measured, n) ==
    IF n = 0 THEN v
    ELSE IF n = 1 THEN VisionAnalyze(v, measured)
    ELSE LET half == VisionFeed(v, measured, n \div 2)
         IN  IF half.hasFrame THEN VisionFeed(half, measured, n - (n \div 2)) ELSE half

\* a session that starts, or one with its first quiet frames seen
InitReports ==
    /\ \E n \in {0, ReportWarmFrames} :
          /\ barkEngine = BarkFeed(BarkStarted, AudioQuiet, n)
          /\ emotionEngine = EmoWalk(EmoConstructor, 1, n)
          /\ visionAnalyzer = VisionFeed(VisionConstructor, PixelsStill, n)
    /\ app = AppLoaded
    /\ loop = {}
    /\ fed = 0
    /\ watch = Watch0

\* one frame of the session: the analyser buffer goes to the bark engine,
\* the box and the bark engine's quickAssess() to the emotion engine, the
\* pixels of the box to the vision analyzer
ReportFrame(a, measured) ==
    /\ IsNull(watch.session)
    /\ fed < MaxReportFrames
    /\ barkEngine' = BarkProcessAudioFrame(barkEngine, a)
    /\ emotionEngine' =
           EmoProcessFrame(emotionEngine,
                           Some([box |-> WalkBox(Len(emotionEngine.frameHistory) + 1)]),
                           Some(BarkQuickAssess(barkEngine'))).engine
    /\ visionAnalyzer' = VisionAnalyze(visionAnalyzer, measured)
    /\ fed' = fed + 1
    /\ UNCHANGED <<app, loop, watch>>

\* fullAnalysis() of the two engines and getSummary() of the analyzer at the
\* end of the session
Reports ==
    /\ IsNull(watch.session)
    /\ watch' = [ watch EXCEPT
                    !.session = Some([ emotion |-> EmoFullAnalysis(emotionEngine),
                                       bark |-> BarkFullAnalysis(barkEngine),
                                       vision |-> VisionGetSummary(visionAnalyzer) ]) ]
    /\ UNCHANGED <<app, loop, barkEngine, emotionEngine, visionAnalyzer, fed>>

NextReports ==
    \/ \E a \in {AudioQuiet, AudioBark}, measured \in Measurements : ReportFrame(a, measured)
    \/ Reports

SpecReports == InitReports /\ [][NextReports]_vars

\* the emotion report is the placeholder of _insufficientData()
EmotionPlaceholder(report) ==
    /\ report.dominantEmotion = "unknown"
    /\ report.confidence = 0
    /\ report.emotionDistribution = <<>>
    /\ report.framesAnalyzed = 0

\* the bark report holds no figure drawn from a sound of the session
BarkPlaceholder(report) ==
    /\ report.soundRatio = 0
    /\ report.soundDuration = 0
    /\ report.barks.total = 0
    /\ DOMAIN report.vocalizations.typeDistribution = {}
    /\ report.vocalizations.intensity = "minimal"

\* the vision summary is the placeholder of getSummary()
VisionPlaceholder(summary) ==
    /\ summary.dominantBodyState = "unknown"
    /\ summary.avgOverallMotion = 0
    /\ summary.avgMicroVibration = 0
    /\ summary.avgMacroMotion = 0
    /\ summary.peakTailWag = 0
    /\ summary.avgTension = 0

\* C20: after fewer than 10 frames of a session each of the three report
\* generators returns a placeholder without statistics of those frames
C20_PlaceholderBelowTenFrames ==
    (~IsNull(watch.session) /\ barkEngine.totalFrameCount < 10)
        => /\ EmotionPlaceholder(Val(watch.session).emotion)
           /\ BarkPlaceholder(Val(watch.session).bark)
           /\ VisionPlaceholder(Val(watch.session).vision)


(***************************************************************************)
(* A scan whose audio context could not be opened                          *)
(***************************************************************************)
\* the bark engine holds no audio node
BarkReleased(b) ==
    /\ ~b.isActive
    /\ ~b.audioContext /\ ~b.analyserNode /\ ~b.sourceNode
    /\ ~b.muteGain /\ ~b.scriptProcessor

\* frames in a run of the scan
MaxVisualFrames == 4

\* Start was clicked and getUserMedia has settled with a stream, with or
\* without an audio track: startCamera() awaits video.play()
InitVisual ==
    /\ \E audio \in BOOLEAN :
          app = AppGotUserMedia(AppStartCamera(AppLoaded), Some([audio |-> audio]))
    /\ loop = {[Activity(1, "start", "getUserMedia", 0) EXCEPT !.at = "play"]}
    /\ barkEngine = BarkConstructor
    /\ emotionEngine = EmoConstructor
    /\ fed = 0
    /\ visionAnalyzer = VisionConstructor
    /\ watch = [Watch0 EXCEPT !.clicks = 1, !.nextId = 2]

NextVisual ==
    \/ Playing(MaxVisualFrames)
    \/ RafFrame(MaxVisualFrames)
    \/ Detected({NoPrediction, SeesDog}, {AudioQuiet, AudioBark})
    \/ ClickStop
    \/ RafStopped

SpecVisual == InitVisual /\ [][NextVisual]_vars

\* C21: when initAudioContext() threw in startScan(), the bark engine is
\* inactive with every audio node released and processAudioFrame() changes
\* nothing of it; a frame of that scan leaves the bark engine as it was, and
\* a frame in which the detector saw a dog feeds the emotion engine without
\* vocalization data
C21_VisualOnlyAfterAudioFailure ==
    watch.audioThrown
        => /\ BarkReleased(barkEngine)
           /\ \A a \in AudioFrames : BarkProcessAudioFrame(barkEngine, a) = barkEngine
           /\ ~IsNull(watch.lastFrame)
                 => LET f == Val(watch.lastFrame)
                    IN  /\ f.barkAfter = f.barkBefore
                        /\ f.dogSeen => (f.fedEmotion /\ IsNull(f.barkAssess))

\* a frame with a dog was processed in a scan whose audio context failed
C21_Witness ==
    /\ watch.audioThrown
    /\ ~IsNull(watch.lastFrame)
    /\ Val(watch.lastFrame).dogSeen
    /\ Val(watch.lastFrame).fedEmotion
    /\ Len(emotionEngine.frameHistory) > 0


(***************************************************************************)
(* A dog that keeps one shape for the rest of an unending session          *)
(***************************************************************************)
\* no step of processFrame() reads a history further back than this
RecentWindow == 31
\* frames of one shape seen before the dog takes its lasting shape
FollowWarmFrames == 9

\* the engine without the entries of its histories that no later
\* processFrame() reads, and without the session totals, which only
\* fullAnalysis() reads
EmoRecent(e) ==
    [ e EXCEPT !.frameHistory = SliceLast(@, RecentWindow),
               !.movementHistory = SliceLast(@, RecentWindow),
               !.positionHistory = SliceLast(@, RecentWindow),
               !.sizeHistory = SliceLast(@, RecentWindow),
               !.emotionHistory = SliceLast(@, RecentWindow),
               !.postureHistory = SliceLast(@, RecentWindow),
               !.actionHistory = SliceLast(@, RecentWindow),
               !.actionCounts = <<>> ]

\* the dog was seen in one shape for no, some or many frames and now takes
\* the shape of watch.lastRaw
InitFollow ==
    /\ \E before \in Shapes, n \in {0, WarmFrames, FollowWarmFrames} :
          emotionEngine = EmoFeed(EmoConstructor, before, n)
    /\ \E box \in Shapes :
          watch = [ Watch0 EXCEPT !.lastRaw = Some(box),
                                  !.rawPostures = emotionEngine.postureHistory ]
    /\ barkEngine = BarkConstructor
    /\ visionAnalyzer = VisionConstructor
    /\ app = AppLoaded
    /\ loop = {}
    /\ fed = 0

\* the engine, and the postures the aspect ratio indicated, after one more
\* emotionEngine.processFrame() on the lasting box, without audio
FollowNext ==
    LET box == Val(watch.lastRaw)
        next == EmoProcessFrame(emotionEngine, Some([box |-> box]), Null).engine
        raw == EmoRawPosture(EmoPushFrame(emotionEngine, box))
    IN  [ engine |-> EmoRecent(next),
          rawPostures |-> IF Len(next.frameHistory) >= 5
                          THEN PushCap(watch.rawPostures, raw, 5)
                          ELSE watch.rawPostures ]

\* one frame of the session
FollowFrame ==
    /\ \E next \in {FollowNext} :
          /\ emotionEngine' = next.engine
          /\ watch' = [watch EXCEPT !.rawPostures = next.rawPostures]
    /\ UNCHANGED <<app, loop, barkEngine, fed, visionAnalyzer>>

NextFollow == FollowFrame

SpecFollow == InitFollow /\ [][NextFollow]_vars

\* the aspect ratio indicated the posture in the last frame
RawIs(posture) ==
    /\ Len(watch.rawPostures) > 0
    /\ watch.rawPostures[Len(watch.rawPostures)] = posture

\* a further frame of the lasting box changes nothing that any later frame
\* reads: the session stays in this state for ever
Settled ==
    /\ FollowNext.engine = emotionEngine
    /\ FollowNext.rawPostures = watch.rawPostures

\* C22: when from some frame on the indicated posture is always Q,
\* currentPosture is Q after finitely many frames; so the engine never
\* settles, in a state that every further frame of the same box leaves as it
\* is, with an indicated posture Q and another currentPosture.
C22_PostureFollows ==
    Settled => \A Q \in {"stand", "sit", "down", "crouch"} :
                   RawIs(Q) => emotionEngine.currentPosture = Q

(***************************************************************************)
(* How long an open bark event survives frames without a bark              *)
(***************************************************************************)
\* the bark event that was open at the last bark frame is still the open one
GapOpen ==
    /\ ~IsNull(barkEngine.currentBark)
    /\ Val(barkEngine.currentBark).startFrame = Val(watch.gap).start
    /\ Len(barkEngine.barkHistory) = Val(watch.gap).events

\* that bark event has been finalized, and is the last of the history
GapClosed ==
    /\ IsNull(barkEngine.currentBark)
    /\ Len(barkEngine.barkHistory) = Val(watch.gap).events + 1
    /\ barkEngine.barkHistory[Len(barkEngine.barkHistory)].startFrame = Val(watch.gap).start

\* C23: an open bark event stays open across 1 or 2 consecutive silent or
\* ambient frames and is finalized once there have been 3, so that bark
\* frames separated by 1 or 2 such frames belong to the same event.
C23_ClosesAtThree ==
    ~IsNull(watch.gap)
        => /\ Val(watch.gap).n \in 1..2 => GapOpen
           /\ Val(watch.gap).n >= 3 => GapClosed
           /\ (Val(watch.gap).n = 0 /\ Val(watch.gap).over \in 1..2)
                  => Val(watch.gap).start = Val(watch.gap).from

\* C23, as the code has it: an open bark event stays open across up to 3
\* consecutive frames below the voice-activity gate and is finalized at the
\* 4th; a frame above the gate that is classified ambient finalizes it at
\* once.  Bark frames separated by 1 to 3 frames below the gate belong to
\* the same event, bark frames separated by an ambient frame do not.
C23_ClosesAtFourthQuiet ==
    ~IsNull(watch.gap)
        => /\ (Val(watch.gap).n \in 1..3 /\ Val(watch.gap).loud = 0) => GapOpen
           /\ (Val(watch.gap).n >= 4 \/ Val(watch.gap).loud > 0) => GapClosed
           /\ (Val(watch.gap).n = 0 /\ Val(watch.gap).over \in 1..3
                    /\ Val(watch.gap).overLoud = 0)
                  => Val(watch.gap).start = Val(watch.gap).from
           /\ (Val(watch.gap).n = 0 /\ Val(watch.gap).overLoud > 0)
                  => Val(watch.gap).start > Val(watch.gap).from

\* a bark event is still open after 3 frames below the gate
C23_Witness ==
    /\ ~IsNull(watch.gap)
    /\ Val(watch.gap).n = 3
    /\ Val(watch.gap).loud = 0
    /\ GapOpen

(***************************************************************************)
(* Sustained sounds: a second sound event after an earlier one             *)
(***************************************************************************)
\* frames fed to the engine after the silence
MaxSoundFrames == 5
\* the lengths of the earlier sound event
EarlierSoundFrames == {0, 9, 19}
\* frames below the gate that end the earlier sound event
SilentGap == 4

\* a whine (high frequency, energy in the high band) and a growl (low
\* frequency, energy in the low band), both well above the baseline
AudioWhine == [rms |-> 100, freq |-> 500, low |-> 10, mid |-> 30, high |-> 60]
AudioGrowl == [rms |-> 100, freq |-> 200, low |-> 60, mid |-> 30, high |-> 10]

SoundFrames == {AudioQuiet, AudioWhine, AudioGrowl, AudioBark}

\* the engine after 90 frames of a steady room, an earlier sound event and
\* the silence that ended it
InitSound ==
    /\ \E a \in {AudioWhine, AudioGrowl} : \E n \in EarlierSoundFrames :
          barkEngine = BarkFeed(
                           BarkFeed(
                               BarkFeed(BarkStarted, [AudioQuiet EXCEPT !.rms = 10],
                                        BASELINE_FRAMES),
                               a, n),
                           AudioQuiet, SilentGap)
    /\ emotionEngine = EmoConstructor
    /\ app = AppLoaded
    /\ loop = {}
    /\ fed = 0
    /\ visionAnalyzer = VisionConstructor
    /\ watch = Watch0

\* one processAudioFrame() on the next analyser buffer
SoundFrame(a) ==
    /\ fed < MaxSoundFrames
    /\ \E next \in {BarkProcessAudioFrame(barkEngine, a)} :
          /\ barkEngine' = next
          /\ watch' = [watch EXCEPT !.soundRun = IF next.isSoundActive THEN @ + 1 ELSE 0]
    /\ fed' = fed + 1
    /\ UNCHANGED <<app, loop, emotionEngine, visionAnalyzer>>

NextSound == \E a \in SoundFrames : SoundFrame(a)

SpecSound == InitSound /\ [][NextSound]_vars

\* C24: a frame is classified growl only if the current sound event has been
\* above the gate for more than 20 frames in a row, whine only after more
\* than 10 and howl only after more than 35; the frames of earlier sound
\* events, separated from this one by silence, do not count.
C24_SustainedInThisEvent ==
    (fed > 0 /\ LastVocal.isActive)
        => /\ LastVocal.type = "growl" => watch.soundRun > GROWL_MIN_DURATION
           /\ LastVocal.type = "whine" => watch.soundRun > 10
           /\ LastVocal.type = "howl" => watch.soundRun > HOWL_MIN_DURATION

\* C25: the needs list of the assessment returned for a frame with a
\* detection is what _assessNeeds() derives from that frame's primary
\* emotion, patterns and vocalization, and is never empty.
C25_NeedsOfThisFrame ==
    ~IsNull(watch.result)
        => /\ Val(watch.result).emotion.needs = emotionEngine.currentNeeds
           /\ Len(Val(watch.result).emotion.needs) > 0

(***************************************************************************)
(* The pattern counters over sessions longer than the 30-frame window      *)
(***************************************************************************)
\* frames fed to the engine after its warm-up
MaxWindowFrames == 2
\* frames of a first box, and of a second box, in the warmed-up engines
PriorFrames == {0, 3, 4}
WindowWarmFrames == {0, 2, 32}

\* the boxes of the three shapes, and the standing box 30 px to the right
WindowBoxes == Shapes \cup {[BoxStand EXCEPT !.x = @ + 3000]}

InitWindow ==
    /\ \E before \in Shapes : \E after \in Shapes :
       \E k \in PriorFrames : \E n \in WindowWarmFrames :
          emotionEngine = EmoFeed(EmoFeed(EmoConstructor, before, k), after, n)
    /\ barkEngine = BarkConstructor
    /\ app = AppLoaded
    /\ loop = {}
    /\ fed = 0
    /\ visionAnalyzer = VisionConstructor
    /\ watch = Watch0

\* one processFrame() on a detection, without bark data
WindowFrame(box) ==
    /\ fed < MaxWindowFrames
    /\ emotionEngine' = EmoProcessFrame(emotionEngine, Some([box |-> box]), Null).engine
    /\ fed' = fed + 1
    /\ UNCHANGED <<app, loop, barkEngine, visionAnalyzer, watch>>

NextWindow == \E box \in WindowBoxes : WindowFrame(box)

SpecWindow == InitWindow /\ [][NextWindow]_vars

\* the counters _detectPatterns() assigns
windowedPatterns ==
    { "pacing", "spinning", "bouncing", "jumping", "stillness", "approaching",
      "retreating", "headTilts", "playBows", "tailWagLikely", "restlessness", "crouching" }

\* the counters _detectPatterns() gives an engine that has zeroed counters
\* and only the last 30 entries of e's movement history
WindowPatterns(e) ==
    EmoDetectPatterns([e EXCEPT !.movementHistory = SliceLast(@, 30),
                                !.patterns = EmoPatterns0]).patterns

\* every counter that _detectPatterns() assigns is a function of the last
\* 30 movements and the current posture
Windowed ==
    \A k \in windowedPatterns :
        emotionEngine.patterns[k] = WindowPatterns(emotionEngine)[k]

\* no posture change lies in the last 30 entries of the posture history
NoChangeInWindow ==
    LET w == SliceLast(emotionEngine.postureHistory, 30)
    IN  /\ Len(w) = 30
        /\ \A i \in 2..30 : w[i] = w[i - 1]

\* C26: every one of the 13 pattern counters depends only on the trailing
\* window of at most 30 frames; postureChanges is 0 again when no posture
\* change lies in the window.
C26_AllWindowed ==
    /\ Windowed
    /\ NoChangeInWindow => emotionEngine.patterns.postureChanges = 0

\* a frame adds 1 to postureChanges when it changes a known posture, and
\* leaves it alone otherwise
CountsPostureChange ==
    emotionEngine'.patterns.postureChanges =
        emotionEngine.patterns.postureChanges
            + (IF /\ emotionEngine'.currentPosture # emotionEngine.currentPosture
                  /\ emotionEngine.currentPosture # "unknown"
               THEN 1 ELSE 0)

\* C26, as the code has it: the 12 counters that _detectPatterns() assigns
\* depend only on the last 30 movements and the current posture, not on
\* older frames or on their own earlier values; postureChanges is the number
\* of posture changes since the engine was constructed or cleared, and no
\* frame lowers it.
C26_WindowedButPostureChanges ==
    /\ []Windowed
    /\ [][CountsPostureChange]_vars

\* a session longer than the window, whose posture changed before the
\* window began, with a counter of the window above 0
C26_Witness ==
    /\ fed > 0
    /\ Len(emotionEngine.movementHistory) > 30
    /\ NoChangeInWindow
    /\ emotionEngine.patterns.postureChanges > 0
    /\ emotionEngine.patterns.stillness > 0

(***************************************************************************)
(* _assessEmotion() on still dogs whose counters and barks favour play     *)
(***************************************************************************)
\* frames of the standing box before the assessed frame
StillFrames == 12
\* the jump of the box, in px, before the assessed frame
StillJump == 100

\* engines whose counters are not computed yet (7 still frames), after 12
\* still frames, after 12 still frames and a jump of the box (slow on
\* average), and after three such jumps
StillBases ==
    LET still == EmoFeed(EmoConstructor, BoxStand, StillFrames)
        Jump(e, k) == EmoProcessFrame(
                          e, Some([box |-> [BoxStand EXCEPT !.x = @ + k * StillJump * PX]]),
                          Null).engine
    IN  { EmoFeed(EmoConstructor, BoxStand, 7),
          still,
          Jump(still, 1),
          Jump(Jump(Jump(still, 1), 2), 3) }

\* quickAssess() results during play barks and demand barks in quick
\* succession, high-pitched and tonal
PlayBarks ==
    [ isVocalizing |-> TRUE, currentType |-> "bark", dominantType |-> "play",
      intensity |-> 60, barkRate |-> 40, recentBarkCount |-> 3, avgPitch |-> 700,
      hasBaseline |-> TRUE, dominantFreq |-> 700, interBarkInterval |-> 100,
      tonality |-> 70, pitchContour |-> "flat" ]
DemandBarks == [PlayBarks EXCEPT !.dominantType = "demand"]

StillAudio == {Null, Some(PlayBarks), Some(DemandBarks)}

\* an emotion history of 6 frames that ends with the emotion
HistoryEnding(emotion) ==
    [ i \in 1..6 |-> [time |-> i, emotion |-> emotion, confidence |-> 50, intensity |-> 0] ]

InitStill ==
    /\ \E base \in StillBases, posture \in {"unknown", "stand", "sit", "down", "crouch"},
          high \in SUBSET ScoredPatterns, previous \in {"calm", "playful", "excited"} :
          emotionEngine =
              [ base EXCEPT
                  !.currentPosture = posture,
                  !.patterns = [ k \in DOMAIN EmoPatterns0 |->
                                   IF k \in high THEN 7 ELSE base.patterns[k] ],
                  !.emotionHistory = HistoryEnding(previous) ]
    /\ barkEngine = BarkConstructor
    /\ app = AppLoaded
    /\ loop = {}
    /\ fed = 0
    /\ visionAnalyzer = VisionConstructor
    /\ watch = Watch0

\* one _assessEmotion(movement, barkData) on the engine
StillAssess(barkData) ==
    /\ fed = 0
    /\ AssessedAs(EmoAssessEmotion(emotionEngine,
                      emotionEngine.movementHistory[Len(emotionEngine.movementHistory)],
                      barkData), barkData)
    /\ fed' = 1
    /\ UNCHANGED <<app, loop, barkEngine, emotionEngine, visionAnalyzer>>

NextStill == \E barkData \in StillAudio : StillAssess(barkData)

SpecStill == InitStill /\ [][NextStill]_vars

\* the average speed of the last 30 movement samples is below 1 px
AvgSpeedBelowOne(e) ==
    LET last30 == SliceLast(e.movementHistory, 30)
    IN  SumSeq([i \in 1..Len(last30) |-> last30[i].speed]) < CPX * Len(last30)

\* C27: an assessment made with stillness above 15, or with a 30-frame
\* average speed below 1, has a primary emotion that is neither playful nor
\* excited, whatever the posture, the other counters, the vocalization data
\* and the previous emotion are.
C27_StillDogNotPlayful ==
    ( /\ ~IsNull(watch.assessed)
      /\ \/ emotionEngine.patterns.stillness > 15
         \/ AvgSpeedBelowOne(emotionEngine) )
        => Val(watch.assessed).primary \notin {"playful", "excited"}

\* a crouching dog that moved a little (stillness above 15, average speed
\* not below 1), with play bows, bouncing, jumping and tail wagging on its
\* counters, whose last emotion was playful, was assessed during play barks
C27_Witness ==
    /\ ~IsNull(watch.assessed)
    /\ Val(watch.assessed).vocal
    /\ emotionEngine.patterns.stillness > 15
    /\ ~AvgSpeedBelowOne(emotionEngine)
    /\ emotionEngine.currentPosture = "crouch"
    /\ emotionEngine.patterns.playBows > 0
    /\ emotionEngine.patterns.bouncing > 2
    /\ emotionEngine.patterns.jumping > 1
    /\ emotionEngine.patterns.tailWagLikely > 3
    /\ emotionEngine.emotionHistory[6].emotion = "playful"
    /\ Val(watch.assessed).scores.playful > 30

(***************************************************************************)
(* The stability bonus, frame after frame                                  *)
(***************************************************************************)
\* the scores _assessEmotion() computed in the last frame before the
\* stability bonus: those of the engine as it was then, whose emotion
\* history did not hold the frame's own entry yet
FreshScores ==
    EmoFreshScores([emotionEngine EXCEPT !.emotionHistory = SliceFirst(@, Len(@) - 1)],
                   Some(Val(watch.result).bark))

\* the emotion that was primary in the frame before the last one
PreviousPrimary ==
    emotionEngine.emotionHistory[Len(emotionEngine.emotionHistory) - 1].emotion

\* C28: in every assessed frame that follows an assessed frame, the scores
\* that are sorted are the freshly computed ones with exactly 12 added to
\* the primary emotion of the frame before.
C28_BonusFromSecondFrame ==
    (~IsNull(watch.result) /\ Len(emotionEngine.emotionHistory) >= 2)
        => Val(watch.result).emotion.scores
               = [FreshScores EXCEPT ![PreviousPrimary] = @ + 12]

\* C28, as the code has it: the bonus is given when more than 5 assessed
\* frames precede the frame (since construction or clearAll()); then the
\* scores that are sorted are the freshly computed ones with exactly 12
\* added to the primary emotion of the frame before, and in the frames
\* before that they are the freshly computed ones.
C28_BonusAfterFiveFrames ==
    (~IsNull(watch.result) /\ Len(emotionEngine.emotionHistory) >= 2)
        => Val(watch.result).emotion.scores
               = IF Len(emotionEngine.emotionHistory) - 1 > 5
                 THEN [FreshScores EXCEPT ![PreviousPrimary] = @ + 12]
                 ELSE FreshScores

\* the eighth frame since the engines were cleared got the bonus for the
\* seventh frame's primary emotion
C28_Witness ==
    /\ ~IsNull(watch.result)
    /\ Len(emotionEngine.emotionHistory) = 8
    /\ Val(watch.result).emotion.scores[PreviousPrimary] = FreshScores[PreviousPrimary] + 12

(***************************************************************************)
(* The verdict as an ordered decision list                                 *)
(***************************************************************************)
\* the rows of _determineBehaviorState() in their order: whether the row's
\* condition holds for the reports, and its verdict
VerdictRows(emotionReport, barkReport, visionSummary) ==
    LET posture == emotionReport.posture.current
        stillness == AgentStillness(emotionReport)
        avgSpeed == emotionReport.movement.avgSpeed
        vocal == AgentHasVocalization(barkReport)
        confirmed ==
            IF IsNull(visionSummary) THEN TRUE
            ELSE \/ Val(visionSummary).dominantBodyState \in {"very-still", "calm"}
                 \/ Val(visionSummary).avgOverallMotion < 100
        Row(holds, state, label) == [holds |-> holds, state |-> state, label |-> label]
    IN  << Row(posture = "down" /\ stillness > 20 /\ avgSpeed < 15 /\ ~vocal /\ confirmed,
               "sleeping", "Sleeping / Deep Rest"),
           Row(posture = "down" /\ stillness > 10 /\ avgSpeed < 30 /\ ~vocal,
               "resting", "Resting"),
           Row(posture = "down" /\ vocal, "resting", "Lying Down - Vocal"),
           Row(posture = "stand" /\ stillness > 10 /\ avgSpeed < 30 /\ ~vocal,
               "alert-watching", "Alert & Watching"),
           Row(posture = "stand" /\ stillness > 5 /\ avgSpeed < 50 /\ ~vocal,
               "calm-standing", "Calm & Standing"),
           Row(posture = "sit" /\ stillness > 5 /\ avgSpeed < 30,
               "resting", "Sitting Calmly"),
           Row(avgSpeed > 80, "active", "Active & Moving"),
           Row(avgSpeed > 30, "active", "Moderately Active"),
           Row(TRUE, "active", "Normal Activity") >>

\* the rows for the reports analyze() was given, and the first that holds
GivenRows ==
    VerdictRows(RawEmotionReport, Val(watch.agent).before.barkReport,
                Val(watch.agent).before.visionSummary)

FirstRow == CHOOSE i \in 1..Len(GivenRows) :
                /\ GivenRows[i].holds
                /\ \A j \in 1..(i - 1) : ~GivenRows[j].holds

\* C29: the verdict is that of the first row of the ordered list sleeping,
\* resting, resting-but-vocal, alert-watching, calm-standing,
\* resting-sitting, active, moderately-active, default whose condition
\* holds; when the sleeping row's conditions hold it is sleeping, also when
\* the resting row's hold as well.
C29_FirstMatchWins ==
    Analyzed
        => /\ Coherent.behaviorState.state = GivenRows[FirstRow].state
           /\ Coherent.behaviorState.label = GivenRows[FirstRow].label
           /\ GivenRows[1].holds => Coherent.behaviorState.state = "sleeping"

\* the conditions of the sleeping row and of the resting row both held, and
\* the verdict is sleeping
C29_Witness ==
    /\ Analyzed
    /\ GivenRows[1].holds
    /\ GivenRows[2].holds
    /\ Coherent.behaviorState.label = "Sleeping / Deep Rest"

\* analyze() was given no vision summary, or one built from fewer than 10
\* frames
VisionMissing ==
    LET visionSummary == Val(watch.agent).before.visionSummary
    IN  \/ IsNull(visionSummary)
        \/ /\ Val(visionSummary).totalFrames < MIN_SUMMARY_FRAMES
           /\ Val(visionSummary).dominantBodyState = "unknown"

\* C30: when the vision summary is absent, or was built from fewer than 10
\* frames, the verdict is never sleeping.
C30_NoSleepWithoutVision ==
    (Analyzed /\ VisionMissing) => Coherent.behaviorState.state # "sleeping"

(***************************************************************************)
(* The filters of one coherent report, compared                            *)
(***************************************************************************)
\* the signal _buildSignalList() pushes for a pattern counter
patternSignals ==
    [ pacing |-> "Repetitive pacing detected", bouncing |-> "Bouncing/jumping movement",
      spinning |-> "Spinning/circling detected", playBows |-> "Play bow detected!",
      headTilts |-> "Head tilting detected", restlessness |-> "Restless behavior",
      jumping |-> "Jumping detected", approaching |-> "Approaching camera/owner",
      retreating |-> "Moving away", tailWagLikely |-> "Possible tail wagging" ]

\* the pattern counter behind an action of _classifyActions() that has a
\* signal of its own
actionPatterns ==
    ("pacing" :> "pacing") @@ ("bouncing" :> "bouncing") @@ ("spinning" :> "spinning")
        @@ ("play-bow" :> "playBows") @@ ("head-tilting" :> "headTilts")
        @@ ("restless" :> "restlessness") @@ ("approaching" :> "approaching")
        @@ ("retreating" :> "retreating") @@ ("tail-wagging" :> "tailWagLikely")

\* the texts of the signals that the report keeps
KeptSignals ==
    {Coherent.filteredSignals[i].signal : i \in 1..Len(Coherent.filteredSignals)}

\* C31: in a report with the verdict sleeping or resting, no signal is kept
\* that reports a pattern whose counter the report has zeroed or an action
\* that is on the verdict's denylist.
C31_FiltersAgree ==
    (Analyzed /\ Coherent.behaviorState.state \in {"sleeping", "resting"})
        => LET state == Coherent.behaviorState.state
               zeroed == zeroedPatterns(state)
           IN  /\ \A i \in 1..Len(zeroed) : patternSignals[zeroed[i]] \notin KeptSignals
               /\ \A a \in incompatibleActions(state) \cap DOMAIN actionPatterns :
                      patternSignals[actionPatterns[a]] \notin KeptSignals


(***************************************************************************)
(* The action filter on an active dog                                      *)
(***************************************************************************)
\* the raw top actions analyze() was given, and the frames of the session
RawTopActions == RawEmotionReport.actionSummary.topActions

RawFrames == RawEmotionReport.framesAnalyzed

ActiveVerdict == Analyzed /\ Coherent.behaviorState.state = "active"

\* the 'Always skip generic actions' and 'at least 8% of frames' tests
genericActions == {"observing", "stationary"}

minActionPct == 8

SeldomOrGeneric(a) ==
    \/ a.key \in genericActions
    \/ Round(100 * a.count, IF RawFrames = 0 THEN 1 ELSE RawFrames) < minActionPct

\* C32: when the verdict is 'active' the action filter drops nothing: the
\* filtered top actions are the raw top actions and totalUniqueActions is
\* the length of the raw list.
C32_ActiveKeepsAll ==
    ActiveVerdict
        => /\ Coherent.filteredActions.topActions = RawTopActions
           /\ Coherent.filteredActions.totalUniqueActions = Len(RawTopActions)

\* C32, as the code has it: when the verdict is 'active' the filter drops
\* the generic actions 'observing' and 'stationary' and the actions seen in
\* fewer than 8% of the frames, and nothing else: the filtered top actions
\* are the other raw top actions in their order, totalUniqueActions is
\* their number, and the primary action is the raw one.
C32_ActiveDropsSeldomAndGeneric ==
    ActiveVerdict
        => /\ Coherent.filteredActions.topActions
                  = SelectSeq(RawTopActions, LAMBDA a : ~SeldomOrGeneric(a))
           /\ Coherent.filteredActions.totalUniqueActions
                  = Len(SelectSeq(RawTopActions, LAMBDA a : ~SeldomOrGeneric(a)))
           /\ Coherent.filteredActions.primary = RawEmotionReport.actionSummary.primary

\* an active verdict on a session whose raw list holds a generic action and
\* one seen in 5% of the frames: four of the six raw actions are kept
C32_Witness ==
    /\ ActiveVerdict
    /\ Len(RawTopActions) = 6
    /\ \E i, j \in 1..Len(RawTopActions) :
           /\ RawTopActions[i].key = "stationary"
           /\ RawTopActions[j].key = "resting" /\ RawTopActions[j].count = 5
    /\ Coherent.filteredActions.totalUniqueActions = 4


(***************************************************************************)
(* The locomotion action of a frame                                        *)
(***************************************************************************)
\* the active actions of the last classified frame that are of a category
ActionsOf(category) ==
    SelectSeq(emotionEngine.activeActions, LAMBDA a : a.category = category)

\* the categories priorityOrder places after locomotion
lowerCategories == {"posture", "tail", "rest", "direction"}

\* C33: every frame _classifyActions() has classified has exactly one
\* action of the category locomotion among its active actions, so its
\* primary action is not the default 'observing' and is not an action of
\* the categories posture, tail, rest or direction.
C33_OneLocomotionAction ==
    Len(emotionEngine.actionHistory) > 0 =>
        /\ Len(ActionsOf("locomotion")) = 1
        /\ emotionEngine.currentAction # "observing"
        /\ \A i \in 1..Len(emotionEngine.activeActions) :
               emotionEngine.activeActions[i].category \in lowerCategories
                   => emotionEngine.activeActions[i].action # emotionEngine.currentAction

\* a silent, still dog lying down was classified: its actions are of the
\* categories locomotion, posture and rest only, and the primary action is
\* the locomotion action 'stationary'
C33_Witness ==
    /\ fed = 1
    /\ emotionEngine.currentAction = "stationary"
    /\ Len(ActionsOf("posture")) > 0
    /\ Len(ActionsOf("rest")) > 0
    /\ \A i \in 1..Len(emotionEngine.activeActions) :
           emotionEngine.activeActions[i].category \in {"locomotion", "posture", "rest"}


(***************************************************************************)
(* The action 'sleeping' of a dog that lies motionless                     *)
(***************************************************************************)
\* an action is among the active actions of the last frame
ActiveAction(action) ==
    \E i \in 1..Len(emotionEngine.activeActions) :
        emotionEngine.activeActions[i].action = action

\* the dog lies down and the last 30 movement samples have no speed
LiesMotionless ==
    /\ emotionEngine.currentPosture = "down"
    /\ Len(emotionEngine.movementHistory) >= 30
    /\ \A i \in 1..Len(emotionEngine.movementHistory) :
           emotionEngine.movementHistory[i].speed = 0

\* C34: a dog that stays in the posture 'down' and motionless for long
\* enough is eventually given the per-frame action 'sleeping' (posture down
\* and stillness above 50); so a session never settles, in a state that
\* every further frame of the same box leaves as it is, with the dog lying
\* motionless and without 'sleeping' among the active actions.
C34_StillDownDogSleeps ==
    (Settled /\ LiesMotionless) => ActiveAction("sleeping")


(***************************************************************************)
(* A camera flip during a scan                                             *)
(***************************************************************************)
\* frames in a run of the scan
MaxFlipFrames == 2

\* facingMode = facingMode === 'user' ? 'environment' : 'user'
AppToggleFacing(a) ==
    [a EXCEPT !.facingMode = IF @ = "user" THEN "environment" ELSE "user"]

\* the end of the flip handler, after its startCamera() calls: the bark
\* engine is initialised again on the stream when there are a microphone
\* and a stream; an exception of initAudioContext() is caught and logged
AppFlipReinit(s, audioOk) ==
    IF s.app.micAvailable /\ ~IsNull(s.app.stream)
    THEN [s EXCEPT !.bark = BarkInitAudioContext(s.bark, audioOk)[1]]
    ELSE s

\* the scan runs with a microphone; its first frame waits for the next
\* animation frame
InitFlip ==
    /\ Is([AppSessionStarted(TRUE) EXCEPT !.app = AppFrameBegin(@)])
    /\ loop = {Activity(1, "frame", "raf", 0)}
    /\ fed = 1
    /\ visionAnalyzer = VisionConstructor
    /\ watch = [Watch0 EXCEPT !.clicks = 1, !.nextId = 2]

\* click on Flip: facingMode is toggled, and during a scan with a stream
\* startCamera() runs up to its first await
ClickFlip ==
    /\ watch.clicks < MaxClicks
    /\ IF app.running /\ ~IsNull(app.stream)
       THEN /\ app' = AppStartCamera(AppToggleFacing(app))
            /\ loop' = loop \cup {Activity(watch.nextId, "flip", "getUserMedia", watch.stops)}
       ELSE /\ app' = AppToggleFacing(app)
            /\ loop' = loop
    /\ watch' = [watch EXCEPT !.clicks = @ + 1, !.nextId = @ + 1]
    /\ UNCHANGED <<barkEngine, emotionEngine, fed, visionAnalyzer>>

\* a startCamera() of the flip handler has returned false: after the first
\* one facingMode is toggled back and startCamera() is called again, after
\* the second one the handler runs to its end
FlipCameraFailed(t, audioOk) ==
    IF t.kind = "flip"
    THEN /\ app' = AppStartCamera(AppToggleFacing(app))
         /\ loop' = (loop \ {t}) \cup {[t EXCEPT !.kind = "flipBack", !.at = "getUserMedia"]}
         /\ UNCHANGED <<barkEngine, emotionEngine>>
    ELSE /\ Becomes(AppFlipReinit(State, audioOk))
         /\ loop' = loop \ {t}

\* getUserMedia settles in a startCamera() of the flip handler
FlipGotUserMedia ==
    \E t \in loop : \E got \in {Some([audio |-> TRUE]), Some([audio |-> FALSE]), Null} :
      \E audioOk \in BOOLEAN :
        /\ t.kind \in {"flip", "flipBack"} /\ t.at = "getUserMedia"
        /\ IF IsNull(AppGotUserMedia(app, got).stream)
           THEN FlipCameraFailed(t, audioOk)
           ELSE /\ app' = AppGotUserMedia(app, got)
                /\ loop' = (loop \ {t}) \cup {[t EXCEPT !.at = "play"]}
                /\ UNCHANGED <<barkEngine, emotionEngine>>
        /\ UNCHANGED <<fed, watch, visionAnalyzer>>

\* video.play() settles in a startCamera() of the flip handler: resolved,
\* startCamera() returns true and the handler runs to its end; rejected
\* twice, startCamera() returns false
FlipPlayed ==
    \E t \in loop : \E played \in BOOLEAN : \E audioOk \in BOOLEAN :
        /\ t.kind \in {"flip", "flipBack"} /\ t.at = "play"
        /\ IF played
           THEN /\ Becomes(AppFlipReinit(State, audioOk))
                /\ loop' = loop \ {t}
           ELSE FlipCameraFailed(t, audioOk)
        /\ UNCHANGED <<fed, watch, visionAnalyzer>>

NextFlip ==
    \/ ClickFlip
    \/ FlipGotUserMedia
    \/ FlipPlayed
    \/ RafFrame(MaxFlipFrames)
    \/ Detected({NoPrediction, SeesDog}, {AudioQuiet})
    \/ ClickStop
    \/ RafStopped

SpecFlip == InitFlip /\ [][NextFlip]_vars

\* C35: once completeScan() has run, the camera/microphone stream is stopped
\* and the bark engine is inactive, and both stay so while no scan is
\* started again, also when a camera flip was awaiting startCamera() at the
\* moment the scan was stopped.
C35_StoppedStaysStopped ==
    watch.stops > 0 => (IsNull(app.stream) /\ ~barkEngine.isActive)


(***************************************************************************)
(* Stopping as the last transition of a session                            *)
(***************************************************************************)
\* completeScan() runs in this step, and ends a scan that was running
CompletesRunningScan ==
    /\ app.running /\ ~app'.running
    /\ watch'.stops = watch.stops + 1

\* a processFrame() invocation begun before a completeScan() reaches its
\* end after it and schedules itself again
StaleRescheduled ==
    \E t \in loop :
        /\ t.kind = "frame" /\ t.at = "detect"
        /\ t.session < watch.stops
        /\ t \notin loop'
        /\ [t EXCEPT !.at = "raf"] \in loop'

\* C36: stopping is taken once per started session and is final:
\* completeScan() runs only on a running scan, which it ends, so that a
\* Stop click and the time limit of a timed scan together complete the scan
\* once; and no processFrame() invocation of the stopped scan is scheduled
\* again after it.
C36_StopOnceAndForAll ==
    [][ /\ watch'.stops # watch.stops => CompletesRunningScan
        /\ ~StaleRescheduled ]_vars


(***************************************************************************)
(* Sessions long enough to fill the histories                              *)
(***************************************************************************)
\* frames in a run after the histories have been filled
MaxFullFrames == 4

RECURSIVE BarkEvents(_, _)
\* n bark events in a row: frames of barking, then frames of silence until
\* the event has been finalized
BarkEvents(b, n) ==
    IF n = 0 THEN b
    ELSE IF n = 1 THEN BarkFeed(BarkFeed(b, AudioBark, 3), AudioQuiet, SilentGap)
    ELSE LET half == BarkEvents(b, n \div 2)
         IN  IF half.isActive THEN BarkEvents(half, n - (n \div 2)) ELSE half

\* a session in which every history is one entry short of its capacity, or
\* full: the dog sat, stood up and has stood since; it wagged its tail and
\* has been still since; it barked again and again
InitFull ==
    /\ \E short \in {0, 1} :
          /\ emotionEngine = EmoFeed(EmoFeed(EmoConstructor, BoxSit, 1), BoxStand,
                                     maxHistoryFrames - 1 - short)
          /\ barkEngine = BarkEvents(BarkFeed(BarkStarted, [AudioQuiet EXCEPT !.rms = 10],
                                              BASELINE_FRAMES),
                                     maxBarkHistory - short)
          /\ visionAnalyzer = VisionFeed(VisionFeed(VisionConstructor, PixelsWag, 2),
                                         PixelsStill, maxHistory - 1 - short)
    /\ app = AppLoaded
    /\ loop = {}
    /\ fed = 0
    /\ watch = Watch0

\* one frame of the session: the analyser buffer goes to the bark engine,
\* the box and the bark engine's quickAssess() to the emotion engine, the
\* pixels of the box to the vision analyzer
FullFrame(box, a, measured) ==
    /\ fed < MaxFullFrames
    /\ barkEngine' = BarkProcessAudioFrame(barkEngine, a)
    /\ emotionEngine' = EmoProcessFrame(emotionEngine, Some([box |-> box]),
                                        Some(BarkQuickAssess(barkEngine'))).engine
    /\ visionAnalyzer' = VisionAnalyze(visionAnalyzer, measured)
    /\ fed' = fed + 1
    /\ UNCHANGED <<app, loop, watch>>

\* the detector's box and the pixels in it: a still dog standing, or a
\* wagging dog lying down
FullViews == {<<BoxStand, PixelsStill>>, <<BoxDown, PixelsWag>>}

NextFull ==
    \E view \in FullViews, a \in {AudioBark, AudioNoise} : FullFrame(view[1], a, view[2])

SpecFull == InitFull /\ [][NextFull]_vars

\* the list next is the list old with one entry pushed: when old held cap
\* entries its oldest entry is gone, and the new entry is the last
PushedWithin(old, next, cap) ==
    /\ Len(next) = IF Len(old) = cap THEN cap ELSE Len(old) + 1
    /\ SliceFirst(next, Len(next) - 1) = IF Len(old) = cap THEN Tail(old) ELSE old

\* C37: the frame history and the movement history never hold more than 300
\* entries, the bark history never more than 100 finalized events, the
\* motion history of the vision analyzer never more than 90 samples; every
\* frame pushes one entry to the frame, movement and motion histories and
\* every finalized bark one to the bark history, and a push to a full
\* history drops its oldest entry and keeps the new one as the last.
C37_BoundedHistories ==
    [][ /\ Len(emotionEngine'.frameHistory) <= 300
        /\ Len(emotionEngine'.movementHistory) <= 300
        /\ Len(barkEngine'.barkHistory) <= 100
        /\ Len(visionAnalyzer'.motionHistory) <= 90
        /\ PushedWithin(emotionEngine.frameHistory, emotionEngine'.frameHistory, 300)
        /\ PushedWithin(emotionEngine.movementHistory, emotionEngine'.movementHistory, 300)
        /\ visionAnalyzer.hasFrame
              => PushedWithin(visionAnalyzer.motionHistory, visionAnalyzer'.motionHistory, 90)
        /\ IF ~IsNull(barkEngine.currentBark) /\ IsNull(barkEngine'.currentBark)
           THEN /\ PushedWithin(barkEngine.barkHistory, barkEngine'.barkHistory, 100)
                /\ barkEngine'.barkHistory[Len(barkEngine'.barkHistory)].startFrame
                       = Val(barkEngine.currentBark).startFrame
           ELSE barkEngine'.barkHistory = barkEngine.barkHistory ]_vars

\* every history is full, and a bark event beyond the hundredth has been
\* finalized: the oldest event of the history is no longer the first of the
\* session
C37_Witness ==
    /\ Len(emotionEngine.frameHistory) = 300
    /\ Len(emotionEngine.movementHistory) = 300
    /\ Len(visionAnalyzer.motionHistory) = 90
    /\ Len(barkEngine.barkHistory) = 100
    /\ fed = MaxFullFrames
    /\ IsNull(barkEngine.currentBark)
    /\ barkEngine.barkHistory[1].startFrame > BASELINE_FRAMES + 4

====
